---------------------------- MODULE Spec2Model ----------------------------
(***************************************************************************)
(* A model of the chess engine of DistributedChess: the bitboard position, *)
(* make/unmake, move generation and the legality filter (Board.cpp), the   *)
(* FEN reader and writer, the move validator (process_move) and the search.*)
(* A Bitboard (uint64_t) is modelled as the set of the squares whose bit   *)
(* is set; a std::string as the sequence of its characters.                *)
(***************************************************************************)
EXTENDS Integers, Sequences, FiniteSets, TLC

VARIABLES
    shift64,    (* what 1ULL << 64 evaluates to in this build (undefined in C++) *)
    board,      (* the Board object a caller works on *)
    line,       (* the moves made on board and not yet undone, NullMove for a null move *)
    ops,        (* number of Board operations called so far *)
    request,    (* the last HTTP request received *)
    resp,       (* the answer to the last HTTP request *)
    reqs,       (* number of HTTP requests served so far *)
    tt,         (* transposition_table: the slots written so far *)
    log,        (* the calls of search() so far, each with what it returned *)
    games,      (* the row of the game in the table games *)
    game_moves, (* the committed rows of the game in the table moves *)
    handlers,   (* the locals of the running POST /move handlers and bot goroutines *)
    context,    (* the SearchContext of the search in progress *)
    returned    (* the last call of a search function: the Board at entry and at return *)

vars == <<shift64, board, line, ops, request, resp, reqs, tt, log, games, game_moves, handlers, context, returned>>

(***************************************************************************)
(* Basic types (Board.h)                                                   *)
(***************************************************************************)
NO_SQUARE == 64
WHITE == 0
BLACK == 1
BOTH == 2
PAWN == 0
KNIGHT == 1
BISHOP == 2
ROOK == 3
QUEEN == 4
KING == 5
PIECE_TYPE_COUNT == 6
NO_PIECE_TYPE == 7

Squares == 0 .. 63
Colors == {WHITE, BLACK}
PieceTypes == PAWN .. KING

a1 == 0
b1 == 1
c1 == 2
d1 == 3
e1 == 4
f1 == 5
g1 == 6
h1 == 7
a8 == 56
b8 == 57
c8 == 58
d8 == 59
e8 == 60
f8 == 61
g8 == 62
h8 == 63

NORTH == 8
SOUTH == -8

(* MoveFlags (Move.h) *)
QUIET == 0
DOUBLE_PUSH == 1
OO == 2
OOO == 3
CAPTURE == 8
EN_PASSANT == 10
PR_KNIGHT == 4
PR_BISHOP == 5
PR_ROOK == 6
PR_QUEEN == 7
PC_KNIGHT == 12
PC_BISHOP == 13
PC_ROOK == 14
PC_QUEEN == 15

(***************************************************************************)
(* Move (Move.h): a uint16_t, flags << 12 | from << 6 | to                 *)
(***************************************************************************)
Move(from, to, flags) == flags * 4096 + from * 64 + to
NullMove == 0
MoveTo(m) == m % 64
MoveFrom(m) == (m \div 64) % 64
to_from(m) == m % 65536
MoveFlagsOf(m) == (m \div 4096) % 16
is_capture(m) == ((m \div 4096) \div 8) % 2 = 1
MoveEq(x, y) == to_from(x) = to_from(y)

FileChars == <<"a", "b", "c", "d", "e", "f", "g", "h">>
RankChars == <<"1", "2", "3", "4", "5", "6", "7", "8">>
square_to_str(sq) == <<FileChars[(sq % 8) + 1], RankChars[(sq \div 8) + 1]>>

to_uci(m) ==
    LET uci == square_to_str(MoveFrom(m)) \o square_to_str(MoveTo(m))
        fl == MoveFlagsOf(m)
    IN  CASE fl \in {PR_QUEEN, PC_QUEEN} -> uci \o <<"q">>
          [] fl \in {PR_ROOK, PC_ROOK} -> uci \o <<"r">>
          [] fl \in {PR_BISHOP, PC_BISHOP} -> uci \o <<"b">>
          [] fl \in {PR_KNIGHT, PC_KNIGHT} -> uci \o <<"n">>
          [] OTHER -> uci

(***************************************************************************)
(* Bit-set primitives (BitboardUtils.h) on sets of squares                 *)
(***************************************************************************)
ShiftL(bb, k) == {s + k : s \in bb} \cap Squares
ShiftR(bb, k) == {s - k : s \in bb} \cap Squares
FileOf(s) == s % 8
RankOf(s) == s \div 8
Sq(r, f) == r * 8 + f

SquareSeq == [i \in 1 .. 64 |-> i - 1]
(* the squares of a bitboard in the order pop_lsb yields them *)
BitScan(bb) == SelectSeq(SquareSeq, LAMBDA s : s \in bb)
Lsb(bb) == CHOOSE s \in bb : \A t \in bb : s <= t

(* TRUE; TLC evaluates the argument of an operator where it is first used, and *)
(* a loop that hands a state on from round to round has it evaluated at once   *)
Evaluated(x) == x = x

RECURSIVE Concat(_)
Concat(ss) == IF ss = <<>> THEN <<>> ELSE Head(ss) \o Concat(Tail(ss))

NOT_A_FILE == {s \in Squares : FileOf(s) # 0}
NOT_AB_FILE == {s \in Squares : FileOf(s) > 1}
NOT_H_FILE == {s \in Squares : FileOf(s) # 7}
NOT_GH_FILE == {s \in Squares : FileOf(s) < 6}
NOT_FIRST_RANK == {s \in Squares : RankOf(s) # 0}
NOT_LAST_RANK == {s \in Squares : RankOf(s) # 7}
RANK2 == {s \in Squares : RankOf(s) = 1}
RANK7 == {s \in Squares : RankOf(s) = 6}

(***************************************************************************)
(* Attack tables (Board.cpp, init_* functions)                             *)
(***************************************************************************)
PAWN_PUSHES ==
    [c \in Colors |-> [sq \in Squares |->
        IF c = WHITE
        THEN ShiftL({sq}, 8) \cup (IF sq \in RANK2 THEN ShiftL({sq}, 16) ELSE {})
        ELSE ShiftR({sq}, 8) \cup (IF sq \in RANK7 THEN ShiftR({sq}, 16) ELSE {})]]

PAWN_ATTACKS ==
    [c \in Colors |-> [sq \in Squares |->
        IF c = WHITE
        THEN (ShiftL({sq}, 7) \cap NOT_H_FILE) \cup (ShiftL({sq}, 9) \cap NOT_A_FILE)
        ELSE (ShiftR({sq}, 9) \cap NOT_H_FILE) \cup (ShiftR({sq}, 7) \cap NOT_A_FILE)]]

KNIGHT_ATTACKS ==
    [sq \in Squares |->
        (ShiftL({sq}, 17) \cap NOT_A_FILE) \cup (ShiftL({sq}, 15) \cap NOT_H_FILE)
        \cup (ShiftL({sq}, 10) \cap NOT_AB_FILE) \cup (ShiftL({sq}, 6) \cap NOT_GH_FILE)
        \cup (ShiftR({sq}, 17) \cap NOT_H_FILE) \cup (ShiftR({sq}, 15) \cap NOT_A_FILE)
        \cup (ShiftR({sq}, 10) \cap NOT_GH_FILE) \cup (ShiftR({sq}, 6) \cap NOT_AB_FILE)]

KING_ATTACKS ==
    [sq \in Squares |->
        (ShiftL({sq}, 9) \cap NOT_A_FILE \cap NOT_FIRST_RANK)
        \cup (ShiftL({sq}, 8) \cap NOT_FIRST_RANK)
        \cup (ShiftL({sq}, 7) \cap NOT_H_FILE \cap NOT_FIRST_RANK)
        \cup (ShiftL({sq}, 1) \cap NOT_A_FILE)
        \cup (ShiftR({sq}, 1) \cap NOT_H_FILE)
        \cup (ShiftR({sq}, 7) \cap NOT_A_FILE \cap NOT_LAST_RANK)
        \cup (ShiftR({sq}, 8) \cap NOT_LAST_RANK)
        \cup (ShiftR({sq}, 9) \cap NOT_H_FILE \cap NOT_LAST_RANK)]

(* the loop  for (r, f = start; lo < r < hi && lo < f < hi; r += dr, f += df) mask |= bit  *)
RECURSIVE MaskRay(_, _, _, _)
MaskRay(r, f, dr, df) ==
    IF (dr = 1 /\ ~(r < 7)) \/ (dr = -1 /\ ~(r > 0))
       \/ (df = 1 /\ ~(f < 7)) \/ (df = -1 /\ ~(f > 0))
    THEN {}
    ELSE {Sq(r, f)} \cup MaskRay(r + dr, f + df, dr, df)

BISHOP_MASKS ==
    [sq \in Squares |->
        LET rank == sq \div 8
            file == sq % 8
        IN  MaskRay(rank + 1, file + 1, 1, 1) \cup MaskRay(rank + 1, file - 1, 1, -1)
            \cup MaskRay(rank - 1, file + 1, -1, 1) \cup MaskRay(rank - 1, file - 1, -1, -1)]

ROOK_MASKS ==
    [sq \in Squares |->
        LET rank == sq \div 8
            file == sq % 8
        IN  MaskRay(rank + 1, file, 1, 0) \cup MaskRay(rank - 1, file, -1, 0)
            \cup MaskRay(rank, file + 1, 0, 1) \cup MaskRay(rank, file - 1, 0, -1)]

BISHOP_MASK_BITS == [sq \in Squares |-> BitScan(BISHOP_MASKS[sq])]
ROOK_MASK_BITS == [sq \in Squares |-> BitScan(ROOK_MASKS[sq])]

(* the loop  for (...; 0 <= r < 8 && 0 <= f < 8; ...) { attacks |= bit; if (occ & bit) break; } *)
RECURSIVE AttackRay(_, _, _, _, _)
AttackRay(r, f, dr, df, occ) ==
    IF r < 0 \/ r >= 8 \/ f < 0 \/ f >= 8
    THEN {}
    ELSE {Sq(r, f)} \cup (IF Sq(r, f) \in occ THEN {} ELSE AttackRay(r + dr, f + df, dr, df, occ))

(* "Set occupancy bits": bit i of occ_idx selects the i-th lowest square of the mask *)
DepositBits(occ_idx, maskbits) ==
    {maskbits[i] : i \in {j \in 1 .. Len(maskbits) : (occ_idx \div (2 ^ (j - 1))) % 2 = 1}}

BishopDirections == {<<1, 1>>, <<1, -1>>, <<-1, 1>>, <<-1, -1>>}
RookDirections == {<<1, 0>>, <<-1, 0>>, <<0, 1>>, <<0, -1>>}

(* the attack set computed for one (square, occupancy) entry of a table *)
SliderAttacks(rank, file, directions, occ) ==
    UNION {AttackRay(rank + d[1], file + d[2], d[1], d[2], occ) : d \in directions}

BISHOP_ATTACKS(sq, occ_idx) ==
    SliderAttacks(sq \div 8, sq % 8, BishopDirections, DepositBits(occ_idx, BISHOP_MASK_BITS[sq]))

ROOK_ATTACKS(sq, occ_idx) ==
    SliderAttacks(sq \div 8, sq % 8, RookDirections, DepositBits(occ_idx, ROOK_MASK_BITS[sq]))

(***************************************************************************)
(* Board (Board.h, Board.cpp)                                              *)
(***************************************************************************)
Piece(type, color) == [type |-> type, color |-> color]
NoPiece == Piece(NO_PIECE_TYPE, WHITE)
AllCastlingRights ==
    [white_king_side |-> TRUE, white_queen_side |-> TRUE,
     black_king_side |-> TRUE, black_queen_side |-> TRUE]
NoCastlingRights ==
    [white_king_side |-> FALSE, white_queen_side |-> FALSE,
     black_king_side |-> FALSE, black_queen_side |-> FALSE]

(* a frame that copies all of the frame before *)
UndoInfoCopyAll(prev) == prev

(* UndoInfo() = default; the key is a set of bit positions like a bitboard *)
UndoInfoDefault ==
    [entry |-> {}, captured |-> NoPiece, epsq |-> NO_SQUARE,
     castling_rights |-> AllCastlingRights, halfmove_clock |-> 0,
     full_move_counter |-> 1, zobrist_key |-> {}]
(* UndoInfo(const UndoInfo& prev) : entry(prev.entry) {} *)
UndoInfoCopy(prev) == [UndoInfoDefault EXCEPT !.entry = prev.entry]

(* history[256]: the entries never written are default-constructed; the model *)
(* keeps the prefix up to the highest index written (game_ply grows by one)   *)
History(b, i) == IF i + 1 \in DOMAIN b.history THEN b.history[i + 1] ELSE UndoInfoDefault
SetHistory(b, i, u) ==
    IF i + 1 <= Len(b.history)
    THEN [b EXCEPT !.history[i + 1] = u]
    ELSE [b EXCEPT !.history = Append(@, u)]

(* Board::Board(); assert_ok records that no assert() of the Board has failed *)
NewBoard ==
    [bitboards |-> [c \in Colors |-> [pt \in PieceTypes |-> {}]],
     occupancy |-> [c \in {WHITE, BLACK, BOTH} |-> {}],
     mailbox |-> [s \in Squares |-> NoPiece],
     player_to_move |-> WHITE,
     castling_rights |-> AllCastlingRights,
     game_ply |-> 0,
     full_move_counter |-> 1,
     halfmove_clock |-> 0,
     zobrist_key |-> {},
     history |-> <<UndoInfoDefault>>,
     assert_ok |-> TRUE]

get_piece_type_on_square(b, s) == b.mailbox[s].type
get_piece_color_on_square(b, s) == b.mailbox[s].color
get_player_to_move(b) == b.player_to_move
get_halfmove_clock(b) == b.halfmove_clock
Other(c) == IF c = WHITE THEN BLACK ELSE WHITE

(* a put_piece that forgets occupancy[BOTH] *)
put_piece_no_occupancy(b, s, p) ==
    [b EXCEPT !.assert_ok = @ /\ (b.mailbox[s].type = NO_PIECE_TYPE),
              !.bitboards[p.color][p.type] = @ \cup {s},
              !.occupancy[p.color] = @ \cup {s},
              !.mailbox[s] = p]

put_piece(b, s, p) ==
    [b EXCEPT !.assert_ok = @ /\ (b.mailbox[s].type = NO_PIECE_TYPE),
              !.bitboards[p.color][p.type] = @ \cup {s},
              !.occupancy[p.color] = @ \cup {s},
              !.occupancy[BOTH] = @ \cup {s},
              !.mailbox[s] = p]

(* only the type of the mailbox entry is reset; its color stays *)
remove_piece(b, s) ==
    LET p == b.mailbox[s]
    IN  IF p.type = NO_PIECE_TYPE
        THEN (* assert fails; without it bitboards[color][NO_PIECE_TYPE] is out of range *)
             [b EXCEPT !.assert_ok = FALSE,
                       !.occupancy[p.color] = @ \ {s},
                       !.occupancy[BOTH] = @ \ {s}]
        ELSE [b EXCEPT !.bitboards[p.color][p.type] = @ \ {s},
                       !.occupancy[p.color] = @ \ {s},
                       !.occupancy[BOTH] = @ \ {s},
                       !.mailbox[s].type = NO_PIECE_TYPE]

make_move(b, from, to) ==
    LET moving_piece == b.mailbox[from]
        cleared == IF b.mailbox[to].type # NO_PIECE_TYPE THEN remove_piece(b, to) ELSE b
    IN  put_piece(remove_piece(cleared, from), to, moving_piece)

make_quiet_move(b, from, to) ==
    LET moving_piece == b.mailbox[from]
    IN  put_piece(remove_piece(b, from), to, moving_piece)

relative_dir(b, dir) == IF b.player_to_move = WHITE THEN dir ELSE -dir

UINT16 == 65536

PromotionPiece(type) ==
    CASE type \in {PR_KNIGHT, PC_KNIGHT} -> KNIGHT
      [] type \in {PR_BISHOP, PC_BISHOP} -> BISHOP
      [] type \in {PR_ROOK, PC_ROOK} -> ROOK
      [] type \in {PR_QUEEN, PC_QUEEN} -> QUEEN

(* a rights update that looks at the piece that moves only *)
UpdateCastlingRightsMover(b, from, to) ==
    LET cr == b.castling_rights
        piece_type == get_piece_type_on_square(b, from)
        white == b.player_to_move = WHITE
    IN  CASE piece_type = KING /\ white ->
                [cr EXCEPT !.white_king_side = FALSE, !.white_queen_side = FALSE]
          [] piece_type = KING /\ ~white ->
                [cr EXCEPT !.black_king_side = FALSE, !.black_queen_side = FALSE]
          [] piece_type = ROOK /\ white ->
                [cr EXCEPT !.white_queen_side = @ /\ from # a1,
                           !.white_king_side = @ /\ from # h1]
          [] piece_type = ROOK /\ ~white ->
                [cr EXCEPT !.black_queen_side = @ /\ from # a8,
                           !.black_king_side = @ /\ from # h8]
          [] OTHER -> cr

(* the castling-rights update at the head of Board::move *)
UpdateCastlingRights(b, from, to) ==
    LET cr == b.castling_rights
        piece_type == get_piece_type_on_square(b, from)
        white == b.player_to_move = WHITE
        moved ==
            CASE piece_type = KING /\ white ->
                    [cr EXCEPT !.white_king_side = FALSE, !.white_queen_side = FALSE]
              [] piece_type = KING /\ ~white ->
                    [cr EXCEPT !.black_king_side = FALSE, !.black_queen_side = FALSE]
              [] piece_type = ROOK /\ white ->
                    [cr EXCEPT !.white_queen_side = @ /\ from # a1,
                               !.white_king_side = @ /\ from # h1]
              [] piece_type = ROOK /\ ~white ->
                    [cr EXCEPT !.black_queen_side = @ /\ from # a8,
                               !.black_king_side = @ /\ from # h8]
              [] OTHER -> cr
    IN  IF get_piece_type_on_square(b, to) = ROOK
        THEN IF white
             THEN [moved EXCEPT !.black_queen_side = @ /\ to # a8,
                                !.black_king_side = @ /\ to # h8]
             ELSE [moved EXCEPT !.white_queen_side = @ /\ to # a1,
                                !.white_king_side = @ /\ to # h1]
        ELSE moved

(* the switch (type) of Board::move; p is the game ply of the new history frame *)
MoveDispatch(b, from, to, type) ==
    LET p == b.game_ply
        white == b.player_to_move = WHITE
        record_capture(bb) == SetHistory(bb, p, [History(bb, p) EXCEPT !.captured = bb.mailbox[to]])
    IN  CASE type = QUIET -> make_quiet_move(b, from, to)
          [] type = DOUBLE_PUSH ->
                LET moved == make_quiet_move(b, from, to)
                IN  SetHistory(moved, p,
                        [History(moved, p) EXCEPT !.epsq = from + relative_dir(b, NORTH)])
          [] type = OO ->
                IF white
                THEN make_quiet_move(make_quiet_move(b, e1, g1), h1, f1)
                ELSE make_quiet_move(make_quiet_move(b, e8, g8), h8, f8)
          [] type = OOO ->
                IF white
                THEN make_quiet_move(make_quiet_move(b, e1, c1), a1, d1)
                ELSE make_quiet_move(make_quiet_move(b, e8, c8), a8, d8)
          [] type = EN_PASSANT ->
                remove_piece(make_quiet_move(b, from, to), to + relative_dir(b, SOUTH))
          [] type \in {PR_KNIGHT, PR_BISHOP, PR_ROOK, PR_QUEEN} ->
                put_piece(remove_piece(b, from), to, Piece(PromotionPiece(type), b.player_to_move))
          [] type \in {PC_KNIGHT, PC_BISHOP, PC_ROOK, PC_QUEEN} ->
                put_piece(remove_piece(record_capture(remove_piece(b, from)), to), to,
                          Piece(PromotionPiece(type), b.player_to_move))
          [] type = CAPTURE -> make_move(record_capture(b), from, to)
          [] OTHER -> b

(***************************************************************************)
(* Zobrist hashing (declared in Board.h: zobrist_key, get_hash,            *)
(* make_null_move, undo_null_move; their bodies are not in Board.cpp).     *)
(* Every key of the table is one independent bit, so a hash is the set of  *)
(* the keys XOR-ed into it and XOR is the symmetric difference.            *)
(***************************************************************************)
Xor(x, y) == (x \ y) \cup (y \ x)
ZOBRIST_CASTLING_BASE == 769
ZOBRIST_EP_BASE == 773
ZOBRIST_PIECE(c, pt, s) == c * 384 + pt * 64 + s
ZOBRIST_SIDE == 768
PieceKeys(b) ==
    UNION {{ZOBRIST_PIECE(c, pt, s) : s \in b.bitboards[c][pt]} : c \in Colors, pt \in PieceTypes}
SideKeys(c) == IF c = BLACK THEN {ZOBRIST_SIDE} ELSE {}
CastlingKeys(cr) ==
    (IF cr.white_king_side THEN {ZOBRIST_CASTLING_BASE} ELSE {})
    \cup (IF cr.white_queen_side THEN {ZOBRIST_CASTLING_BASE + 1} ELSE {})
    \cup (IF cr.black_king_side THEN {ZOBRIST_CASTLING_BASE + 2} ELSE {})
    \cup (IF cr.black_queen_side THEN {ZOBRIST_CASTLING_BASE + 3} ELSE {})
EpKeys(epsq) == IF epsq \in Squares THEN {ZOBRIST_EP_BASE + (epsq % 8)} ELSE {}

(* the hash rebuilt from scratch, as FEN parsing does *)
compute_hash(b) ==
    PieceKeys(b) \cup SideKeys(b.player_to_move) \cup CastlingKeys(b.castling_rights)
        \cup EpKeys(History(b, b.game_ply).epsq)

(* the incremental update of apply: XOR out removed occupants, XOR in added *)
(* occupants, toggle the side key, the changed castling keys, the old and   *)
(* the new en-passant-file keys                                             *)
hash_after_move(before, after) ==
    LET placement == Xor(PieceKeys(before), PieceKeys(after))
        castling == Xor(CastlingKeys(before.castling_rights), CastlingKeys(after.castling_rights))
        ep == Xor(EpKeys(History(before, before.game_ply).epsq),
                  EpKeys(History(after, after.game_ply).epsq))
    IN  Xor(Xor(Xor(Xor(before.zobrist_key, placement), {ZOBRIST_SIDE}), castling), ep)

get_hash(b) == b.zobrist_key

(* the head of Board::move: the new history frame, then the castling rights *)
MoveFrame(b, from, to) ==
    [SetHistory([b EXCEPT !.game_ply = @ + 1], b.game_ply + 1,
                [UndoInfoCopy(History(b, b.game_ply)) EXCEPT !.entry = @ \cup {to, from}])
        EXCEPT !.castling_rights = UpdateCastlingRights(b, from, to)]

(* clocks that reset the halfmove clock on captures only *)
MoveClocksCaptureOnly(b, m, placed) ==
    LET halfmove == IF is_capture(m) THEN 0 ELSE b.halfmove_clock + 1
        fullmove == IF b.player_to_move = BLACK
                    THEN (b.full_move_counter + 1) % UINT16
                    ELSE b.full_move_counter
    IN  [SetHistory([placed EXCEPT !.halfmove_clock = halfmove, !.full_move_counter = fullmove],
                    placed.game_ply,
                    [History(placed, placed.game_ply) EXCEPT
                        !.castling_rights = placed.castling_rights,
                        !.halfmove_clock = halfmove,
                        !.full_move_counter = fullmove])
            EXCEPT !.player_to_move = Other(b.player_to_move)]

(* the tail of Board::move on the Board placed that the switch left: the clocks, *)
(* the rights and the clocks saved in the frame, the side to move                *)
MoveClocks(b, m, placed) ==
    LET halfmove == IF get_piece_type_on_square(b, MoveFrom(m)) = PAWN \/ is_capture(m)
                    THEN 0 ELSE b.halfmove_clock + 1
        fullmove == IF b.player_to_move = BLACK
                    THEN (b.full_move_counter + 1) % UINT16
                    ELSE b.full_move_counter
    IN  [SetHistory([placed EXCEPT !.halfmove_clock = halfmove, !.full_move_counter = fullmove],
                    placed.game_ply,
                    [History(placed, placed.game_ply) EXCEPT
                        !.castling_rights = placed.castling_rights,
                        !.halfmove_clock = halfmove,
                        !.full_move_counter = fullmove])
            EXCEPT !.player_to_move = Other(b.player_to_move)]

(* the hash is kept in the Board and in the current history frame *)
SetKey(b, key) ==
    SetHistory([b EXCEPT !.zobrist_key = key], b.game_ply,
               [History(b, b.game_ply) EXCEPT !.zobrist_key = key])

(* the incremental hash update that ends Board::move; moved is the Board after it *)
MoveHash(b, moved) == SetKey(moved, hash_after_move(b, moved))

(* void Board::move(Move m) *)
move(b, m) ==
    MoveHash(b, MoveClocks(b, m, MoveDispatch(MoveFrame(b, MoveFrom(m), MoveTo(m)),
                                              MoveFrom(m), MoveTo(m), MoveFlagsOf(m))))

(* void Board::undo_move(Move m); b.player_to_move is flipped back first *)
UndoDispatch(b, from, to, type) ==
    LET white == b.player_to_move = WHITE
        captured == History(b, b.game_ply).captured
    IN  CASE type \in {QUIET, DOUBLE_PUSH} -> make_quiet_move(b, to, from)
          [] type = OO ->
                IF white
                THEN make_quiet_move(make_quiet_move(b, g1, e1), f1, h1)
                ELSE make_quiet_move(make_quiet_move(b, g8, e8), f8, h8)
          [] type = OOO ->
                IF white
                THEN make_quiet_move(make_quiet_move(b, c1, e1), d1, a1)
                ELSE make_quiet_move(make_quiet_move(b, c8, e8), d8, a8)
          [] type = EN_PASSANT ->
                put_piece(make_quiet_move(b, to, from), to + relative_dir(b, SOUTH),
                          Piece(PAWN, IF white THEN BLACK ELSE WHITE))
          [] type \in {PR_KNIGHT, PR_BISHOP, PR_ROOK, PR_QUEEN} ->
                put_piece(remove_piece(b, to), from, Piece(PAWN, b.player_to_move))
          [] type \in {PC_KNIGHT, PC_BISHOP, PC_ROOK, PC_QUEEN} ->
                put_piece(put_piece(remove_piece(b, to), to, captured), from,
                          Piece(PAWN, b.player_to_move))
          [] type = CAPTURE -> put_piece(make_quiet_move(b, to, from), to, captured)
          [] OTHER -> b

(* the tail of Board::undo_move: the frame is popped; rights and clocks (and the *)
(* hash, when restore_key) are those of the frame below                          *)
UndoRestore(b, placed, restore_key) ==
    [placed EXCEPT !.game_ply = b.game_ply - 1,
                   !.castling_rights = History(b, b.game_ply - 1).castling_rights,
                   !.halfmove_clock = History(b, b.game_ply - 1).halfmove_clock,
                   !.full_move_counter = History(b, b.game_ply - 1).full_move_counter,
                   !.zobrist_key = IF restore_key THEN History(b, b.game_ply - 1).zobrist_key
                                   ELSE @]

(* an undo_move that leaves the hash of the position it undoes *)
undo_move_stale_key(b, m) ==
    UndoRestore(b, UndoDispatch([b EXCEPT !.player_to_move = Other(b.player_to_move)],
                                MoveFrom(m), MoveTo(m), MoveFlagsOf(m)), FALSE)

undo_move(b, m) ==
    UndoRestore(b, UndoDispatch([b EXCEPT !.player_to_move = Other(b.player_to_move)],
                                MoveFrom(m), MoveTo(m), MoveFlagsOf(m)), TRUE)

(* void Board::make_null_move(): flips the side to move, clears the en-passant *)
(* target in the new history frame, toggles the side key, bumps the ply        *)
make_null_move(b) ==
    LET p == b.game_ply + 1
        key == Xor(Xor(b.zobrist_key, {ZOBRIST_SIDE}), EpKeys(History(b, b.game_ply).epsq))
        frame == [UndoInfoCopy(History(b, p - 1)) EXCEPT
                     !.castling_rights = b.castling_rights,
                     !.halfmove_clock = b.halfmove_clock,
                     !.full_move_counter = b.full_move_counter,
                     !.zobrist_key = key]
    IN  SetHistory([b EXCEPT !.game_ply = p,
                             !.player_to_move = Other(b.player_to_move),
                             !.zobrist_key = key], p, frame)

(* void Board::undo_null_move() *)
undo_null_move(b) ==
    LET p == b.game_ply - 1
    IN  [b EXCEPT !.game_ply = p,
                  !.player_to_move = Other(b.player_to_move),
                  !.zobrist_key = History(b, p).zobrist_key]

(* bool Board::has_non_pawn_material(Color c) const *)
has_non_pawn_material(b, c) ==
    \E pt \in {KNIGHT, BISHOP, ROOK, QUEEN} : b.bitboards[c][pt] # {}

(***************************************************************************)
(* Move generation (Board.cpp)                                             *)
(***************************************************************************)
(* BitboardUtil::square_to_bitboard: 1ULL << s, undefined for s = NO_SQUARE *)
square_to_bitboard(s) == IF s < 64 THEN {s} ELSE shift64

(* int Board::get_occupancy_index(from_square, masks); maskbits = the mask's squares, low to high *)
get_occupancy_index(b, from_square, maskbits) ==
    LET bit(i) == IF maskbits[i] \in b.occupancy[BOTH] THEN 2 ^ (i - 1) ELSE 0
        RECURSIVE Sum(_)
        Sum(i) == IF i = 0 THEN 0 ELSE bit(i) + Sum(i - 1)
    IN  Sum(Len(maskbits))

CaptureOrQuiet(b, from_square, attacks) ==
    LET enemy == Other(b.player_to_move)
        bits == BitScan(attacks)
    IN  [i \in 1 .. Len(bits) |->
            IF bits[i] \in b.occupancy[enemy]
            THEN Move(from_square, bits[i], CAPTURE)
            ELSE Move(from_square, bits[i], QUIET)]

generate_pawn_moves(b, from_square) ==
    LET us == b.player_to_move
        enemy == Other(us)
        pushes_bb == PAWN_PUSHES[us][from_square]
        attacks_bb == BitScan(PAWN_ATTACKS[us][from_square])
        dir == relative_dir(b, NORTH)
        start == (us = WHITE /\ from_square \in RANK2) \/ (us = BLACK /\ from_square \in RANK7)
        promote == (us = WHITE /\ from_square \in RANK7) \/ (us = BLACK /\ from_square \in RANK2)
        first_square == from_square + dir
        second_square == first_square + dir
        occ == b.occupancy[BOTH]
        pushes ==
            IF start
            THEN IF first_square \notin occ
                 THEN <<Move(from_square, first_square, QUIET)>>
                      \o (IF second_square \notin occ
                          THEN <<Move(from_square, second_square, DOUBLE_PUSH)>>
                          ELSE <<>>)
                 ELSE <<>>
            ELSE IF promote
            THEN IF pushes_bb \cap occ = {}
                 THEN <<Move(from_square, from_square + dir, PR_KNIGHT),
                        Move(from_square, from_square + dir, PR_BISHOP),
                        Move(from_square, from_square + dir, PR_ROOK),
                        Move(from_square, from_square + dir, PR_QUEEN)>>
                 ELSE <<>>
            ELSE IF pushes_bb \cap occ = {}
                 THEN <<Move(from_square, Lsb(pushes_bb), QUIET)>>
                 ELSE <<>>
        epbb == square_to_bitboard(History(b, b.game_ply).epsq)
        attack(to_square) ==
            IF promote
            THEN IF to_square \in b.occupancy[enemy]
                 THEN <<Move(from_square, to_square, PC_KNIGHT),
                        Move(from_square, to_square, PC_BISHOP),
                        Move(from_square, to_square, PC_ROOK),
                        Move(from_square, to_square, PC_QUEEN)>>
                 ELSE <<>>
            ELSE IF to_square \in b.occupancy[enemy]
                 THEN <<Move(from_square, to_square, CAPTURE)>>
                 ELSE IF to_square \in epbb
                      THEN <<Move(from_square, to_square, EN_PASSANT)>>
                      ELSE <<>>
    IN  pushes \o Concat([i \in 1 .. Len(attacks_bb) |-> attack(attacks_bb[i])])

(* a generator that has no knight moves *)
generate_knight_moves_none(b, from_square) == <<>>

generate_knight_moves(b, from_square) ==
    CaptureOrQuiet(b, from_square, KNIGHT_ATTACKS[from_square] \ b.occupancy[b.player_to_move])

generate_bishop_moves(b, from_square) ==
    LET occ_idx == get_occupancy_index(b, from_square, BISHOP_MASK_BITS[from_square])
    IN  CaptureOrQuiet(b, from_square,
            BISHOP_ATTACKS(from_square, occ_idx) \ b.occupancy[b.player_to_move])

generate_rook_moves(b, from_square) ==
    LET occ_idx == get_occupancy_index(b, from_square, ROOK_MASK_BITS[from_square])
    IN  CaptureOrQuiet(b, from_square,
            ROOK_ATTACKS(from_square, occ_idx) \ b.occupancy[b.player_to_move])

generate_queen_moves(b, from_square) ==
    LET bishop_occ_idx == get_occupancy_index(b, from_square, BISHOP_MASK_BITS[from_square])
        rook_occ_idx == get_occupancy_index(b, from_square, ROOK_MASK_BITS[from_square])
    IN  CaptureOrQuiet(b, from_square,
            (BISHOP_ATTACKS(from_square, bishop_occ_idx) \cup ROOK_ATTACKS(from_square, rook_occ_idx))
                \ b.occupancy[b.player_to_move])

(* the tests of is_square_under_attack (pawns, knights, king, bishops, rooks, queens) *)
(* on the attack sets looked up for the square                                       *)
AttackedBy(b, square, player_under_attack, attacker, bishop_attacks, rook_attacks) ==
    \/ PAWN_ATTACKS[player_under_attack][square] \cap b.bitboards[attacker][PAWN] # {}
    \/ KNIGHT_ATTACKS[square] \cap b.bitboards[attacker][KNIGHT] # {}
    \/ KING_ATTACKS[square] \cap b.bitboards[attacker][KING] # {}
    \/ bishop_attacks \cap b.bitboards[attacker][BISHOP] # {}
    \/ rook_attacks \cap b.bitboards[attacker][ROOK] # {}
    \/ (bishop_attacks \cup rook_attacks) \cap b.bitboards[attacker][QUEEN] # {}

(* a test that overlooks the rooks and the queens on ranks and files *)
is_square_under_attack_no_rook(b, square, player_under_attack) ==
    AttackedBy(b, square, player_under_attack, Other(player_under_attack),
        BISHOP_ATTACKS(square, get_occupancy_index(b, square, BISHOP_MASK_BITS[square]))
            \ b.occupancy[player_under_attack],
        {})

(* bool Board::is_square_under_attack(Square square, Color player_under_attack) *)
is_square_under_attack(b, square, player_under_attack) ==
    AttackedBy(b, square, player_under_attack, Other(player_under_attack),
        BISHOP_ATTACKS(square, get_occupancy_index(b, square, BISHOP_MASK_BITS[square]))
            \ b.occupancy[player_under_attack],
        ROOK_ATTACKS(square, get_occupancy_index(b, square, ROOK_MASK_BITS[square]))
            \ b.occupancy[player_under_attack])

(* bool Board::is_in_check(Color player); the boards of the model hold both kings *)
is_in_check(b, player) == is_square_under_attack(b, Lsb(b.bitboards[player][KING]), player)

(* the castling tests of generate_king_moves, king side first: the right, the     *)
(* squares that must be empty, the squares that must not be attacked, the move    *)
CastlingOptions(b) ==
    IF b.player_to_move = WHITE
    THEN <<[right |-> b.castling_rights.white_king_side, between |-> {f1, g1},
            path |-> {e1, f1, g1}, m |-> Move(e1, g1, OO)],
           [right |-> b.castling_rights.white_queen_side, between |-> {b1, d1, c1},
            path |-> {e1, d1, c1}, m |-> Move(e1, c1, OOO)]>>
    ELSE <<[right |-> b.castling_rights.black_king_side, between |-> {f8, g8},
            path |-> {e8, f8, g8}, m |-> Move(e8, g8, OO)],
           [right |-> b.castling_rights.black_queen_side, between |-> {b8, d8, c8},
            path |-> {e8, d8, c8}, m |-> Move(e8, c8, OOO)]>>

(* castling without a look at the squares the king crosses *)
CastlingMovesUnchecked(b, options) ==
    Concat([i \in 1 .. Len(options) |->
        IF /\ options[i].right
           /\ \A s \in options[i].between : b.mailbox[s].type = NO_PIECE_TYPE
        THEN <<options[i].m>>
        ELSE <<>>])

(* the castling moves of generate_king_moves *)
CastlingMoves(b, options) ==
    Concat([i \in 1 .. Len(options) |->
        IF /\ options[i].right
           /\ \A s \in options[i].between : b.mailbox[s].type = NO_PIECE_TYPE
           /\ \A s \in options[i].path : ~is_square_under_attack(b, s, b.player_to_move)
        THEN <<options[i].m>>
        ELSE <<>>])

generate_king_moves(b, from_square) ==
    CaptureOrQuiet(b, from_square, KING_ATTACKS[from_square] \ b.occupancy[b.player_to_move])
        \o CastlingMoves(b, CastlingOptions(b))

(* Move* Board::generate_pseudo_legal_moves(Move* list) *)
generate_pseudo_legal_moves(b) ==
    LET us == b.player_to_move
        each(pt, gen(_, _)) ==
            LET bits == BitScan(b.bitboards[us][pt])
            IN  Concat([i \in 1 .. Len(bits) |-> gen(b, bits[i])])
    IN  each(PAWN, generate_pawn_moves) \o each(KNIGHT, generate_knight_moves)
        \o each(BISHOP, generate_bishop_moves) \o each(ROOK, generate_rook_moves)
        \o each(QUEEN, generate_queen_moves)
        \o generate_king_moves(b, Lsb(b.bitboards[us][KING]))


(* one round of the loop of get_legal_moves: after is the Board after move(m); *)
(* m is kept when the king of the side that moved is not in check; undo_move(m) *)
TestAndUndo(m, after, legal) ==
    [board |-> undo_move(after, m),
     legal |-> IF ~is_in_check(after, Other(after.player_to_move)) THEN Append(legal, m) ELSE legal]

(* the loop of get_legal_moves / get_legal_captures over moves[lo .. hi]: every  *)
(* pseudo-legal move is made, tested and undone on the Board itself, one after   *)
(* the other; st holds the Board and the list of the moves kept so far. The      *)
(* range is run as its lower half and then its upper half                        *)
RECURSIVE FilterLegal(_, _, _, _, _)
FilterLegal(st, moves, lo, hi, captures_only) ==
    IF lo > hi \/ ~Evaluated(st) THEN st
    ELSE IF lo = hi
         THEN IF captures_only /\ ~is_capture(moves[lo]) THEN st
              ELSE TestAndUndo(moves[lo], move(st.board, moves[lo]), st.legal)
         ELSE FilterLegal(FilterLegal(st, moves, lo, (lo + hi) \div 2, captures_only),
                          moves, ((lo + hi) \div 2) + 1, hi, captures_only)

FilterAll(b, moves, captures_only) ==
    FilterLegal([board |-> b, legal |-> <<>>], moves, 1, Len(moves), captures_only)

(* the list returned and the Board left behind by get_legal_moves (captures_only *)
(* = FALSE) or get_legal_captures (TRUE)                                         *)
ListLegal(b, captures_only) == FilterAll(b, generate_pseudo_legal_moves(b), captures_only)

(* std::vector<Move> Board::get_legal_moves() *)
get_legal_moves(b) == ListLegal(b, FALSE).legal

(* std::vector<Move> Board::get_legal_captures() *)
get_legal_captures(b) == ListLegal(b, TRUE).legal

(* the Board that a call of get_legal_moves / get_legal_captures leaves behind *)
AfterLegalMoves(b) == ListLegal(b, FALSE).board
AfterLegalCaptures(b) == ListLegal(b, TRUE).board

(* bool Board::is_insufficient_material() *)
is_insufficient_material(b) ==
    LET white_count == Cardinality(b.occupancy[WHITE])
        black_count == Cardinality(b.occupancy[BLACK])
    IN  \/ white_count = 1 /\ black_count = 1
        \/ white_count = 2 /\ black_count = 1 /\ b.bitboards[WHITE][KNIGHT] # {}
        \/ white_count = 1 /\ black_count = 2 /\ b.bitboards[BLACK][KNIGHT] # {}
        \/ white_count = 2 /\ black_count = 1 /\ b.bitboards[WHITE][BISHOP] # {}
        \/ white_count = 1 /\ black_count = 2 /\ b.bitboards[BLACK][BISHOP] # {}

(***************************************************************************)
(* FEN input and output (Board.cpp); a string is the sequence of its chars *)
(***************************************************************************)
(* the printable characters, from the space (code 32) to the tilde (code 126); the *)
(* double quote and the backslash are spelled out *)
AsciiChars ==
    <<
      " ", "!", "dquote", "#", "$", "%", "&", "'", "(", ")", "*", "+", ",", "-", ".", "/",
      "0", "1", "2", "3", "4", "5", "6", "7", "8", "9", ":", ";", "<", "=", ">", "?",
      "@", "A", "B", "C", "D", "E", "F", "G", "H", "I", "J", "K", "L", "M", "N", "O",
      "P", "Q", "R", "S", "T", "U", "V", "W", "X", "Y", "Z", "[", "bslash", "]", "^", "_",
      "bquote", "a", "b", "c", "d", "e", "f", "g", "h", "i", "j", "k", "l", "m", "n", "o",
      "p", "q", "r", "s", "t", "u", "v", "w", "x", "y", "z", "{", "|", "}", "~"
    >>

Ord(c) == 31 + (CHOOSE i \in 1 .. Len(AsciiChars) : AsciiChars[i] = c)
IndexOf(str, c) == IF \E i \in 1 .. Len(str) : str[i] = c
                   THEN CHOOSE i \in 1 .. Len(str) : str[i] = c /\ \A j \in 1 .. i - 1 : str[j] # c
                   ELSE 0

whitePiecesString == <<"P", "N", "B", "R", "Q", "K">>
blackPiecesString == <<"p", "n", "b", "r", "q", "k">>
DigitChars == <<"0", "1", "2", "3", "4", "5", "6", "7", "8", "9">>

(* while (std::getline(stream, token, delim)) tokens.push_back(token) *)
RECURSIVE Split(_, _)
Split(str, delim) ==
    IF str = <<>> THEN <<>>
    ELSE LET i == IndexOf(str, delim)
         IN  IF i = 0 THEN <<str>>
             ELSE <<SubSeq(str, 1, i - 1)>> \o Split(SubSeq(str, i + 1, Len(str)), delim)

RECURSIVE Reverse(_)
Reverse(q) == IF q = <<>> THEN <<>> ELSE Reverse(Tail(q)) \o <<Head(q)>>

INT_MAX == 2147483647
INT_MAX_DIGITS == <<2, 1, 4, 7, 4, 8, 3, 6, 4, 7>>

RECURSIVE DigitsValue(_)
DigitsValue(ds) == IF ds = <<>> THEN 0 ELSE DigitsValue(SubSeq(ds, 1, Len(ds) - 1)) * 10 + ds[Len(ds)]

RECURSIVE DigitsLess(_, _)
DigitsLess(x, y) ==
    IF x = <<>> THEN FALSE
    ELSE IF Head(x) # Head(y) THEN Head(x) < Head(y) ELSE DigitsLess(Tail(x), Tail(y))

(* std::stoi: an optional sign, then the leading digits; throws when there is no digit *)
(* (std::invalid_argument) or the value does not fit an int (std::out_of_range)        *)
stoi(str) ==
    LET signed == str # <<>> /\ Head(str) \in {"+", "-"}
        body == IF signed THEN Tail(str) ELSE str
        ndig == IF \E i \in 1 .. Len(body) : IndexOf(DigitChars, body[i]) = 0
                THEN (CHOOSE i \in 1 .. Len(body) :
                        IndexOf(DigitChars, body[i]) = 0
                        /\ \A j \in 1 .. i - 1 : IndexOf(DigitChars, body[j]) # 0) - 1
                ELSE Len(body)
        digits == [i \in 1 .. ndig |-> IndexOf(DigitChars, body[i]) - 1]
        nzero == IF \E i \in 1 .. ndig : digits[i] # 0
                 THEN (CHOOSE i \in 1 .. ndig : digits[i] # 0 /\ \A j \in 1 .. i - 1 : digits[j] = 0) - 1
                 ELSE ndig
        sig == SubSeq(digits, nzero + 1, ndig)
        fits == Len(sig) < 10 \/ (Len(sig) = 10 /\ (sig = INT_MAX_DIGITS \/ DigitsLess(sig, INT_MAX_DIGITS)))
        negative == signed /\ Head(str) = "-"
    IN  IF ndig = 0 \/ ~fits
        THEN [throws |-> TRUE, value |-> 0]
        ELSE [throws |-> FALSE, value |-> IF negative THEN -DigitsValue(sig) ELSE DigitsValue(sig)]

(* SquareMap.at(name): std::out_of_range unless name is one of "a1" .. "h8" *)
SquareMapAt(name) ==
    IF Len(name) = 2 /\ IndexOf(FileChars, name[1]) # 0 /\ IndexOf(RankChars, name[2]) # 0
    THEN [throws |-> FALSE, value |-> (IndexOf(RankChars, name[2]) - 1) * 8 + IndexOf(FileChars, name[1]) - 1]
    ELSE [throws |-> TRUE, value |-> NO_SQUARE]

(* one character of the placement loop; st = [board, square, ub]: a write at a square *)
(* index >= 64 is out of the bounds of mailbox[64] (undefined behaviour)               *)
PlaceChar(st, c) ==
    LET b == st.board
        square == st.square
        white_idx == IndexOf(whitePiecesString, c)
        black_idx == IndexOf(blackPiecesString, c)
        color == IF white_idx # 0 THEN WHITE ELSE BLACK
        type_idx == (IF white_idx # 0 THEN white_idx ELSE black_idx) - 1
        empty_squares == Ord(c) - Ord("0")
        last == square + empty_squares - 1
    IN  IF white_idx # 0 \/ black_idx # 0
        THEN IF square >= 64
             THEN [st EXCEPT !.ub = TRUE, !.square = square + 1]
             ELSE [st EXCEPT !.square = square + 1,
                             !.board = [b EXCEPT !.bitboards[color][type_idx] = @ \cup {square},
                                                 !.occupancy[color] = @ \cup {square},
                                                 !.occupancy[BOTH] = @ \cup {square},
                                                 !.mailbox[square] = Piece(type_idx, color)]]
        ELSE IF empty_squares <= 0 THEN st
             ELSE IF last >= 64
                  THEN [st EXCEPT !.ub = TRUE, !.square = last + 1]
                  ELSE [st EXCEPT !.square = last + 1,
                                  !.board = [b EXCEPT !.mailbox =
                                      [s \in Squares |-> IF s \in square .. last THEN NoPiece ELSE @[s]]]]

RECURSIVE PlaceChars(_, _)
PlaceChars(st, str) ==
    IF str = <<>> THEN st
    ELSE LET next == PlaceChar(st, Head(str))
         IN  IF next.square < 0 THEN next ELSE PlaceChars(next, Tail(str))

(* the fields of setup_with_fen after the placement: side to move, castling   *)
(* rights, en-passant square, clocks; the first history frame                  *)
SetupFields(pb, side, rights, epsq, halfmove, fullmove) ==
    SetHistory([pb EXCEPT !.player_to_move = IF side = <<"w">> THEN WHITE ELSE BLACK,
                          !.castling_rights = rights,
                          !.game_ply = 0,
                          !.halfmove_clock = halfmove,
                          !.full_move_counter = fullmove % UINT16],
               0,
               [History(pb, 0) EXCEPT !.epsq = epsq,
                                      !.castling_rights = rights,
                                      !.halfmove_clock = halfmove,
                                      !.full_move_counter = fullmove % UINT16])

CastlingFromString(cstr) ==
    [white_king_side |-> IndexOf(cstr, "K") # 0,
     white_queen_side |-> IndexOf(cstr, "Q") # 0,
     black_king_side |-> IndexOf(cstr, "k") # 0,
     black_queen_side |-> IndexOf(cstr, "q") # 0]

(* the hash is rebuilt from scratch at the end of FEN parsing *)
SetupHash(framed) == SetKey(framed, compute_hash(framed))

SetupParsed(b, tokens, placed, epsq, halfmove, fullmove) ==
    IF placed.ub THEN [outcome |-> "ub", board |-> b]
    ELSE IF halfmove.throws \/ fullmove.throws \/ epsq.throws
         THEN [outcome |-> "throw", board |-> b]
         ELSE [outcome |-> "ok",
               board |-> SetupHash(SetupFields(placed.board, tokens[2],
                             CastlingFromString(tokens[3]), epsq.value,
                             halfmove.value, fullmove.value))]

SetupTokens(b, tokens) ==
    IF Len(tokens) < 6 THEN [outcome |-> "ok", board |-> b]
    ELSE SetupParsed(b, tokens,
             PlaceChars([board |-> b, square |-> 0, ub |-> FALSE],
                        Concat(Reverse(Split(tokens[1], "/")))),
             IF tokens[4] = <<"-">> THEN [throws |-> FALSE, value |-> NO_SQUARE]
                                    ELSE SquareMapAt(tokens[4]),
             stoi(tokens[5]), stoi(tokens[6]))

(* void Board::setup_with_fen(std::string fen) on the Board b.                        *)
(* outcome: "ok" (returned), "throw" (an exception left it), "ub" (undefined behaviour) *)
setup_with_fen(b, fen) == SetupTokens(b, Split(fen, " "))

(* std::to_string(int) *)
RECURSIVE NatToString(_)
NatToString(n) ==
    IF n < 10 THEN <<DigitChars[n + 1]>> ELSE NatToString(n \div 10) \o <<DigitChars[(n % 10) + 1]>>
to_string(n) == IF n < 0 THEN <<"-">> \o NatToString(-n) ELSE NatToString(n)

(* one rank of the placement field; empty = the run of empty squares so far *)
RECURSIVE FenRank(_, _, _, _)
FenRank(b, rank, file, empty) ==
    LET p == b.mailbox[rank * 8 + file]
        flush == IF empty > 0 THEN <<AsciiChars[Ord("0") + empty - 31]>> ELSE <<>>
    IN  IF file = 8 THEN flush
        ELSE IF p.type = NO_PIECE_TYPE THEN FenRank(b, rank, file + 1, empty + 1)
        ELSE flush \o <<IF p.color = WHITE THEN whitePiecesString[p.type + 1]
                                           ELSE blackPiecesString[p.type + 1]>>
             \o FenRank(b, rank, file + 1, 0)

RECURSIVE FenPlacement(_, _)
FenPlacement(b, rank) ==
    FenRank(b, rank, 0, 0) \o (IF rank > 0 THEN <<"/">> \o FenPlacement(b, rank - 1) ELSE <<>>)

(* an en-passant field that is always the dash *)
FenEnPassantNone(epsq) == <<"-">>

(* the en-passant field of to_fen: the square of the current history frame *)
FenEnPassant(epsq) ==
    IF epsq = NO_SQUARE THEN <<"-">>
    ELSE <<AsciiChars[Ord("a") + (epsq % 8) - 31], AsciiChars[Ord("1") + (epsq \div 8) - 31]>>

(* std::string Board::to_fen() *)
to_fen(b) ==
    LET cr == b.castling_rights
        castling == (IF cr.white_king_side THEN <<"K">> ELSE <<>>)
                    \o (IF cr.white_queen_side THEN <<"Q">> ELSE <<>>)
                    \o (IF cr.black_king_side THEN <<"k">> ELSE <<>>)
                    \o (IF cr.black_queen_side THEN <<"q">> ELSE <<>>)
        epsq == History(b, b.game_ply).epsq
    IN  FenPlacement(b, 7)
        \o <<" ", IF b.player_to_move = WHITE THEN "w" ELSE "b", " ">>
        \o (IF castling = <<>> THEN <<"-">> ELSE castling)
        \o <<" ">>
        \o FenEnPassant(epsq)
        \o <<" ">> \o to_string(b.halfmove_clock)
        \o <<" ">> \o to_string(b.full_move_counter)

(***************************************************************************)
(* The move validator (Validator.cpp: process_move)                        *)
(***************************************************************************)
(* generate_pseudo_legal_moves and is_in_check take bitboard_to_square of the king *)
(* bitboard: __builtin_ctzll(0) is undefined when the side has no king            *)
HasKing(b, c) == b.bitboards[c][KING] # {}

RECURSIVE FirstMatch(_, _)
FirstMatch(legal, uci) ==
    IF legal = <<>> THEN NullMove
    ELSE IF to_uci(Head(legal)) = uci THEN Head(legal) ELSE FirstMatch(Tail(legal), uci)

ParseListed(listed, uci) == [m |-> FirstMatch(listed.legal, uci), board |-> listed.board]

(* a parser that takes the first legal move whatever the string says *)
parse_uci_move_first(b, uci) ==
    [m |-> Head(ListLegal(b, FALSE).legal \o <<NullMove>>), board |-> ListLegal(b, FALSE).board]

(* Move Board::parse_uci_move(const std::string& uci): the move found, and the *)
(* Board as get_legal_moves leaves it                                           *)
parse_uci_move(b, uci) == ParseListed(ListLegal(b, FALSE), uci)

SystemError == [result |-> "SYSTEM_ERROR", status |-> "", game_state |-> "", new_fen |-> <<>>,
                generated |-> FALSE]
Undefined(generated) == [result |-> "undefined", status |-> "", game_state |-> "", new_fen |-> <<>>,
                         generated |-> generated]
InvalidMove == [result |-> "json", status |-> "INVALID", game_state |-> "", new_fen |-> <<>>,
                generated |-> TRUE]

(* a classification that looks at the clock before it looks for mate *)
ClassifyClockFirst(listed, in_check) ==
    [result |-> "json", status |-> "VALID",
     game_state |-> IF get_halfmove_clock(listed.board) >= 100 THEN "DRAW_50_MOVE"
                    ELSE IF Len(listed.legal) = 0 /\ in_check THEN "CHECKMATE"
                    ELSE IF Len(listed.legal) = 0 /\ ~in_check THEN "STALEMATE"
                    ELSE IF is_insufficient_material(listed.board) THEN "DRAW_INSUFFICIENT"
                    ELSE "ACTIVE",
     new_fen |-> to_fen(listed.board),
     generated |-> TRUE]

(* the tail of process_move: listed is what get_legal_moves gave on the Board *)
(* after the move                                                              *)
ClassifyListed(listed, in_check) ==
    [result |-> "json", status |-> "VALID",
     game_state |-> IF Len(listed.legal) = 0 /\ in_check THEN "CHECKMATE"
                    ELSE IF Len(listed.legal) = 0 /\ ~in_check THEN "STALEMATE"
                    ELSE IF get_halfmove_clock(listed.board) >= 100 THEN "DRAW_50_MOVE"
                    ELSE IF is_insufficient_material(listed.board) THEN "DRAW_INSUFFICIENT"
                    ELSE "ACTIVE",
     new_fen |-> to_fen(listed.board),
     generated |-> TRUE]

ProcessListed(listed) ==
    ClassifyListed(listed, is_in_check(listed.board, get_player_to_move(listed.board)))

ProcessMoved(moved) ==
    IF ~HasKing(moved, moved.player_to_move) THEN Undefined(TRUE)
    ELSE ProcessListed(ListLegal(moved, FALSE))

ProcessParsed(parsed) ==
    IF parsed.m = NullMove THEN InvalidMove ELSE ProcessMoved(move(parsed.board, parsed.m))

ProcessSetup(parsed_fen, uci_move) ==
    IF parsed_fen.outcome = "throw" THEN SystemError
    ELSE IF parsed_fen.outcome = "ub" THEN Undefined(FALSE)
    ELSE IF ~HasKing(parsed_fen.board, parsed_fen.board.player_to_move) THEN Undefined(TRUE)
    ELSE ProcessParsed(parse_uci_move(parsed_fen.board, uci_move))

(* std::string process_move(const std::string& current_fen, const std::string& uci_move); *)
(* result: "SYSTEM_ERROR", "json" (the JSON text with status, game_state, new_fen), or    *)
(* "undefined" when the call runs into undefined behaviour                                *)
process_move(current_fen, uci_move) == ProcessSetup(setup_with_fen(NewBoard, current_fen), uci_move)

(***************************************************************************)
(* Evaluation and transposition table (Search.h, Search.cpp)               *)
(***************************************************************************)
INT_MIN == -INT_MAX - 1

Max(x, y) == IF x > y THEN x ELSE y
Min(x, y) == IF x < y THEN x ELSE y

(* centipawns, by PieceType *)
PIECE_VALUE == <<100, 320, 330, 500, 900, 20000>>

(* piece-square tables, a1 first *)
PAWN_PST ==
    <<
      0,  0,  0,  0,  0,  0,  0,  0,
      5, 10, 10,-20,-20, 10, 10,  5,
      5, -5,-10,  0,  0,-10, -5,  5,
      0,  0,  0, 20, 20,  0,  0,  0,
      5,  5, 10, 25, 25, 10,  5,  5,
      10, 10, 20, 30, 30, 20, 10, 10,
      50, 50, 50, 50, 50, 50, 50, 50,
      0,  0,  0,  0,  0,  0,  0,  0
    >>

KNIGHT_PST ==
    <<
      -50,-40,-30,-30,-30,-30,-40,-50,
      -40,-20,  0,  5,  5,  0,-20,-40,
      -30,  5, 10, 15, 15, 10,  5,-30,
      -30,  0, 15, 20, 20, 15,  0,-30,
      -30,  5, 15, 20, 20, 15,  5,-30,
      -30,  0, 10, 15, 15, 10,  0,-30,
      -40,-20,  0,  0,  0,  0,-20,-40,
      -50,-40,-30,-30,-30,-30,-40,-50
    >>

BISHOP_PST ==
    <<
      -20,-10,-10,-10,-10,-10,-10,-20,
      -10,  5,  0,  0,  0,  0,  5,-10,
      -10, 10, 10, 10, 10, 10, 10,-10,
      -10,  0, 10, 10, 10, 10,  0,-10,
      -10,  5,  5, 10, 10,  5,  5,-10,
      -10,  0,  5, 10, 10,  5,  0,-10,
      -10,  0,  0,  0,  0,  0,  0,-10,
      -20,-10,-10,-10,-10,-10,-10,-20
    >>

ROOK_PST ==
    <<
      0,  0,  0,  5,  5,  0,  0,  0,
      -5,  0,  0,  0,  0,  0,  0, -5,
      -5,  0,  0,  0,  0,  0,  0, -5,
      -5,  0,  0,  0,  0,  0,  0, -5,
      -5,  0,  0,  0,  0,  0,  0, -5,
      -5,  0,  0,  0,  0,  0,  0, -5,
      5, 10, 10, 10, 10, 10, 10,  5,
      0,  0,  0,  0,  0,  0,  0,  0
    >>

QUEEN_PST ==
    <<
      -20,-10,-10, -5, -5,-10,-10,-20,
      -10,  0,  5,  0,  0,  0,  0,-10,
      -10,  5,  5,  5,  5,  5,  0,-10,
      0,  0,  5,  5,  5,  5,  0, -5,
      -5,  0,  5,  5,  5,  5,  0, -5,
      -10,  0,  5,  5,  5,  5,  0,-10,
      -10,  0,  0,  0,  0,  0,  0,-10,
      -20,-10,-10, -5, -5,-10,-10,-20
    >>

KING_PST ==
    <<
      20, 30, 10,  0,  0, 10, 30, 20,
      20, 20,  0,  0,  0,  0, 20, 20,
      -10,-20,-20,-20,-20,-20,-20,-10,
      -20,-30,-30,-40,-40,-30,-30,-20,
      -30,-40,-40,-50,-50,-40,-40,-30,
      -30,-40,-40,-50,-50,-40,-40,-30,
      -30,-40,-40,-50,-50,-40,-40,-30,
      -30,-40,-40,-50,-50,-40,-40,-30
    >>

PST == <<PAWN_PST, KNIGHT_PST, BISHOP_PST, ROOK_PST, QUEEN_PST, KING_PST>>

(* Square(s ^ 56): rank r becomes rank 7 - r *)
flip_square(s) == (7 - (s \div 8)) * 8 + (s % 8)

(* the value of the piece on sq, positive for white *)
SquareValue(b, sq) ==
    LET pt == get_piece_type_on_square(b, sq)
        c == get_piece_color_on_square(b, sq)
        value == PIECE_VALUE[pt + 1] + PST[pt + 1][(IF c = WHITE THEN sq ELSE flip_square(sq)) + 1]
    IN  IF pt = NO_PIECE_TYPE THEN 0 ELSE IF c = WHITE THEN value ELSE -value

(* the sum over the squares lo .. hi *)
RECURSIVE EvaluateRange(_, _, _)
EvaluateRange(b, lo, hi) ==
    IF lo = hi THEN SquareValue(b, lo)
    ELSE EvaluateRange(b, lo, (lo + hi) \div 2) + EvaluateRange(b, ((lo + hi) \div 2) + 1, hi)

(* int evaluate(Board& board, int noise) with noise = 0 *)
evaluate(b) ==
    IF get_player_to_move(b) = WHITE THEN EvaluateRange(b, 0, 63) ELSE -EvaluateRange(b, 0, 63)

TT_EXACT == 0
TT_ALPHA == 1
TT_BETA == 2

(* static_cast<int16_t>, static_cast<int8_t> *)
ToInt16(x) == IF x % 65536 >= 32768 THEN (x % 65536) - 65536 ELSE x % 65536
ToInt8(x) == IF x % 256 >= 128 THEN (x % 256) - 256 ELSE x % 256

(* the static array is zero-initialised; the model keeps the slots written *)
EmptyTable == [slot \in {} |-> 0]
ZeroEntry == [key |-> {}, score |-> 0, depth |-> 0, best_move_raw |-> 0, flag |-> TT_EXACT]

(* key & (TT_SIZE - 1): the low 24 bits of the key. A key of the model is the set *)
(* of the Zobrist numbers XOR-ed into it, and the numbers themselves are not in   *)
(* the source: the keys of two positions are taken to differ in their low bits,   *)
(* and HighBits stands for the bits above them, in which the keys that share a    *)
(* slot differ                                                                    *)
HighBits == {-1}
tt_index(key) == key \ HighBits

Slot(table, key) == IF tt_index(key) \in DOMAIN table THEN table[tt_index(key)] ELSE ZeroEntry

(* a store that always replaces the entry of the slot *)
tt_store_always(table, key, score, depth, best, flag, ply) ==
    (tt_index(key) :> [key |-> key,
                       score |-> ToInt16(IF score > 90000 THEN score + ply
                                         ELSE IF score < -90000 THEN score - ply ELSE score),
                       depth |-> ToInt8(depth), best_move_raw |-> to_from(best),
                       flag |-> flag]) @@ table

(* static void tt_store(key, score, depth, best, flag, ply): the table after the call *)
tt_store(table, key, score, depth, best, flag, ply) ==
    LET stored_score == IF score > 90000 THEN score + ply
                        ELSE IF score < -90000 THEN score - ply ELSE score
        e == Slot(table, key)
    IN  IF e.key # key \/ depth >= e.depth
        THEN (tt_index(key) :> [key |-> key, score |-> ToInt16(stored_score),
                                depth |-> ToInt8(depth), best_move_raw |-> to_from(best),
                                flag |-> flag]) @@ table
        ELSE table

(* the score read from an entry deep enough: usable or not by its flag *)
ProbeScore(e, tt_score, alpha, beta) ==
    [hit |-> \/ e.flag = TT_EXACT
             \/ e.flag = TT_BETA /\ tt_score >= beta
             \/ e.flag = TT_ALPHA /\ tt_score <= alpha,
     score |-> tt_score, hash_move |-> e.best_move_raw]

(* a probe that takes the score of an entry of any depth *)
tt_probe_any_depth(table, key, depth, alpha, beta, ply) ==
    LET e == Slot(table, key)
    IN  IF e.key # key THEN [hit |-> FALSE, score |-> 0, hash_move |-> NullMove]
        ELSE ProbeScore(e, IF e.score > 90000 THEN e.score - ply
                           ELSE IF e.score < -90000 THEN e.score + ply ELSE e.score,
                        alpha, beta)

(* static bool tt_probe(key, depth, alpha, beta, score&, hash_move&, ply); hash_move *)
(* starts as Move()                                                                 *)
tt_probe(table, key, depth, alpha, beta, ply) ==
    LET e == Slot(table, key)
    IN  IF e.key # key THEN [hit |-> FALSE, score |-> 0, hash_move |-> NullMove]
        ELSE IF e.depth < depth THEN [hit |-> FALSE, score |-> 0, hash_move |-> e.best_move_raw]
        ELSE ProbeScore(e, IF e.score > 90000 THEN e.score - ply
                           ELSE IF e.score < -90000 THEN e.score + ply ELSE e.score,
                        alpha, beta)

(***************************************************************************)
(* Move ordering and quiescence (Search.cpp). The searching code works on  *)
(* st = [board, tt, ctx, pv_overflow]: the Board, the transposition table, *)
(* the SearchContext; every function returns [score, st].                  *)
(***************************************************************************)
HASH_MOVE_SCORE == 10000000
CAPTURE_BASE == 1000000
KILLER1_SCORE == 900000
KILLER2_SCORE == 800000
DELTA_MARGIN == 900

(* SearchContext::clear(): killers and history are zeroed; the model keeps the *)
(* entries written                                                            *)
ClearContext ==
    [nodes |-> 0, killers |-> <<>>, history |-> <<>>, path_hashes |-> <<>>,
     pv_unrepresentable |-> FALSE]
Killers(ctx, ply) == IF ply \in DOMAIN ctx.killers THEN ctx.killers[ply] ELSE <<NullMove, NullMove>>
HistoryAt(ctx, c, from, to) ==
    IF <<c, from, to>> \in DOMAIN ctx.history THEN ctx.history[<<c, from, to>>] ELSE 0

(* a node that writes its hash only into a slot never written *)
SetPathHashOnce(st, ply, hash) ==
    IF ply + 1 <= Len(st.ctx.path_hashes) THEN st
    ELSE [st EXCEPT !.ctx.path_hashes = Append(@, hash)]

(* path_hashes[ply] = hash; the plies below ply have been written before *)
SetPathHash(st, ply, hash) ==
    IF ply + 1 <= Len(st.ctx.path_hashes)
    THEN [st EXCEPT !.ctx.path_hashes[ply + 1] = hash]
    ELSE [st EXCEPT !.ctx.path_hashes = Append(@, hash)]

(* victim value minus attacker value; an en-passant capture lands on an empty square *)
MvvLva(b, m) ==
    LET attacker == get_piece_type_on_square(b, MoveFrom(m))
        victim == get_piece_type_on_square(b, MoveTo(m))
    IN  PIECE_VALUE[(IF victim = NO_PIECE_TYPE THEN PAWN ELSE victim) + 1] - PIECE_VALUE[attacker + 1]

(* static int score_move(m, board, ctx, ply, hash_move) *)
score_move(m, b, ctx, ply, hash_move) ==
    IF to_from(m) = to_from(hash_move) /\ to_from(hash_move) # 0 THEN HASH_MOVE_SCORE
    ELSE IF is_capture(m) THEN CAPTURE_BASE + MvvLva(b, m)
    ELSE IF ply < 64 /\ to_from(m) = to_from(Killers(ctx, ply)[1]) THEN KILLER1_SCORE
    ELSE IF ply < 64 /\ to_from(m) = to_from(Killers(ctx, ply)[2]) THEN KILLER2_SCORE
    ELSE HistoryAt(ctx, get_player_to_move(b), MoveFrom(m), MoveTo(m))

(* the selection sort of order_moves_scored from position i on: the first of the *)
(* highest scores left is swapped into place                                     *)
RECURSIVE SelectionSort(_, _)
SelectionSort(scored, i) ==
    IF i >= Len(scored) THEN scored
    ELSE LET best_idx == CHOOSE j \in i .. Len(scored) :
                             /\ \A k \in i .. Len(scored) : scored[k].score <= scored[j].score
                             /\ \A k \in i .. j - 1 : scored[k].score < scored[j].score
         IN  SelectionSort([scored EXCEPT ![i] = scored[best_idx], ![best_idx] = scored[i]], i + 1)

MovesOf(scored) == [i \in 1 .. Len(scored) |-> scored[i].m]

(* static void order_moves_scored(Move* moves, int* scores, int count): the moves after it *)
order_moves_scored(moves, scores) ==
    MovesOf(SelectionSort([i \in 1 .. Len(moves) |-> [m |-> moves[i], score |-> scores[i]]], 1))

OrderMoves(b, moves, ctx, ply, hash_move) ==
    order_moves_scored(moves, [i \in 1 .. Len(moves) |-> score_move(moves[i], b, ctx, ply, hash_move)])

OrderCaptures(b, captures) ==
    order_moves_scored(captures, [i \in 1 .. Len(captures) |-> MvvLva(b, captures[i])])

Negate(r) == [score |-> -r.score, st |-> r.st]
Made(st, m) == [st EXCEPT !.board = move(@, m)]
(* a return that leaves the move on the Board *)
NotUnmade(st, m) == st
Unmade(st, m) == [st EXCEPT !.board = undo_move(@, m)]
Counted(st) == [st EXCEPT !.ctx.nodes = @ + 1]

RECURSIVE quiescence_search(_, _, _), QuiescenceRange(_, _, _, _, _)

(* one capture of the loop; run = [st, alpha, cut], cut when a score reached beta *)
QuiescenceScored(child, m, run, beta) ==
    [st |-> Unmade(child.st, m), alpha |-> Max(run.alpha, child.score), cut |-> child.score >= beta]

QuiescenceStep(run, m, beta) ==
    QuiescenceScored(Negate(quiescence_search(Made(run.st, m), -beta, -run.alpha)), m, run, beta)

(* the loop over captures[lo .. hi], run as its lower half and then its upper half *)
QuiescenceRange(run, captures, lo, hi, beta) ==
    IF run.cut \/ lo > hi THEN run
    ELSE IF lo = hi THEN QuiescenceStep(run, captures[lo], beta)
    ELSE QuiescenceRange(QuiescenceRange(run, captures, lo, (lo + hi) \div 2, beta),
                         captures, ((lo + hi) \div 2) + 1, hi, beta)

QuiescenceDone(run, beta) == [score |-> IF run.cut THEN beta ELSE run.alpha, st |-> run.st]

QuiescenceListed(st, listed, alpha, beta) ==
    QuiescenceDone(QuiescenceRange([st |-> [st EXCEPT !.board = listed.board],
                                    alpha |-> alpha, cut |-> FALSE],
                                   OrderCaptures(listed.board, listed.legal),
                                   1, Len(listed.legal), beta),
                   beta)

(* stand-pat cut-off, delta pruning, then the captures *)
QuiescenceStand(st, stand_pat, alpha, beta) ==
    IF stand_pat >= beta THEN [score |-> beta, st |-> st]
    ELSE IF stand_pat + DELTA_MARGIN < Max(alpha, stand_pat)
         THEN [score |-> Max(alpha, stand_pat), st |-> st]
         ELSE QuiescenceListed(st, ListLegal(st.board, TRUE), Max(alpha, stand_pat), beta)

(* static int quiescence_search(board, alpha, beta, ctx, noise) *)
quiescence_search(st, alpha, beta) == QuiescenceStand(Counted(st), evaluate(st.board), alpha, beta)

(***************************************************************************)
(* Negamax with alpha-beta, null-move pruning, PVS and LMR (Search.cpp).   *)
(* nd holds what is fixed in one call of negamax: depth (after the check   *)
(* extension), beta, ply, no_null, in_check, is_pv, hash; acc what its     *)
(* move loop updates: alpha, best, best_move, tt_flag.                     *)
(***************************************************************************)
RECURSIVE negamax(_, _, _, _, _, _), NegamaxRange(_, _, _, _, _)

(* tt_store and return best *)
NegamaxStore(st, nd, acc) ==
    [score |-> acc.best,
     st |-> [st EXCEPT !.tt = tt_store(@, nd.hash, acc.best, nd.depth, acc.best_move,
                                       acc.tt_flag, nd.ply)]]

(* a quiet move cut off: it becomes the first killer of the ply, and its history *)
(* counter grows by depth * depth, up to 1000000                                 *)
(* a cut-off that shifts the killer slots whatever slot 0 holds *)
QuietCutoffShift(ctx, mover, m, nd) ==
    [ctx EXCEPT
        !.killers = (nd.ply :> <<m, Killers(ctx, nd.ply)[1]>>) @@ @,
        !.history = (<<mover, MoveFrom(m), MoveTo(m)>> :>
                        Min(HistoryAt(ctx, mover, MoveFrom(m), MoveTo(m)) + nd.depth * nd.depth,
                            1000000)) @@ @]

QuietCutoff(ctx, mover, m, nd) ==
    [ctx EXCEPT
        !.killers = IF to_from(m) # to_from(Killers(ctx, nd.ply)[1])
                    THEN (nd.ply :> <<m, Killers(ctx, nd.ply)[1]>>) @@ @
                    ELSE @,
        !.history = (<<mover, MoveFrom(m), MoveTo(m)>> :>
                        Min(HistoryAt(ctx, mover, MoveFrom(m), MoveTo(m)) + nd.depth * nd.depth,
                            1000000)) @@ @]

(* st = the state after undo_move: a cut-off ends the loop *)
NegamaxCut(st, m, nd, acc) ==
    IF acc.alpha >= nd.beta
    THEN [st |-> IF ~is_capture(m) /\ nd.ply < 64
                 THEN [st EXCEPT !.ctx = QuietCutoff(@, get_player_to_move(st.board), m, nd)]
                 ELSE st,
          acc |-> [acc EXCEPT !.tt_flag = TT_BETA], cut |-> TRUE]
    ELSE [st |-> st, acc |-> acc, cut |-> FALSE]

(* child = the score of the move m and the state before undo_move *)
NegamaxScored(child, m, nd, acc) ==
    NegamaxCut(Unmade(child.st, m), m, nd,
               [alpha |-> Max(acc.alpha, child.score),
                best |-> Max(acc.best, child.score),
                best_move |-> IF child.score > acc.best THEN m ELSE acc.best_move,
                tt_flag |-> IF child.score > acc.alpha THEN TT_EXACT ELSE acc.tt_flag])

(* PVS re-search with the full window when the null window failed high *)
FullWindow(second, nd, alpha) ==
    IF second.score > alpha /\ second.score < nd.beta
    THEN Negate(negamax(second.st, nd.depth - 1, -nd.beta, -alpha, nd.ply + 1, FALSE))
    ELSE second

(* re-search at full depth when the reduced search failed high *)
Researched(first, nd, alpha, reduction) ==
    IF reduction > 0 /\ first.score > alpha
    THEN Negate(negamax(first.st, nd.depth - 1, -alpha - 1, -alpha, nd.ply + 1, FALSE))
    ELSE first

SearchMove(made, i, nd, alpha, reduction) ==
    IF i = 0
    THEN Negate(negamax(made, nd.depth - 1, -nd.beta, -alpha, nd.ply + 1, FALSE))
    ELSE FullWindow(Researched(Negate(negamax(made, nd.depth - 1 - reduction, -alpha - 1, -alpha,
                                              nd.ply + 1, FALSE)),
                               nd, alpha, reduction),
                    nd, alpha)

Reduction(i, nd, capture, is_killer, gives_check) ==
    IF i >= 3 /\ nd.depth >= 3 /\ ~nd.in_check /\ ~capture /\ ~is_killer /\ ~gives_check
    THEN (IF i >= 6 THEN 2 ELSE 1)
    ELSE 0

IsKiller(ctx, ply, m) ==
    ply < 64 /\ (to_from(m) = to_from(Killers(ctx, ply)[1]) \/ to_from(m) = to_from(Killers(ctx, ply)[2]))

NegamaxTry(made, m, i, nd, acc, is_killer) ==
    NegamaxScored(SearchMove(made, i, nd, acc.alpha,
                             Reduction(i, nd, is_capture(m), is_killer,
                                       is_in_check(made.board, get_player_to_move(made.board)))),
                  m, nd, acc)

(* round i of the move loop; run = [st, acc, cut] *)
NegamaxStep(run, m, i, nd) ==
    NegamaxTry(Made(run.st, m), m, i, nd, run.acc, IsKiller(run.st.ctx, nd.ply, m))

(* the rounds lo .. hi of the move loop, run as the lower half and then the upper half *)
NegamaxRange(run, moves, lo, hi, nd) ==
    IF run.cut \/ lo > hi THEN run
    ELSE IF lo = hi THEN NegamaxStep(run, moves[lo + 1], lo, nd)
    ELSE NegamaxRange(NegamaxRange(run, moves, lo, (lo + hi) \div 2, nd),
                      moves, ((lo + hi) \div 2) + 1, hi, nd)

NegamaxStored(run, nd) == NegamaxStore(run.st, nd, run.acc)

NegamaxOrdered(st, moves, nd, alpha) ==
    NegamaxStored(NegamaxRange([st |-> st,
                                acc |-> [alpha |-> alpha, best |-> INT_MIN,
                                         best_move |-> moves[1], tt_flag |-> TT_ALPHA],
                                cut |-> FALSE],
                               moves, 0, Len(moves) - 1, nd),
                  nd)

(* listed = what get_legal_moves gave: mate or stalemate, or the ordered moves *)
NegamaxListed(st, listed, nd, alpha, hash_move) ==
    IF Len(listed.legal) = 0
    THEN [score |-> IF nd.in_check THEN -100000 + nd.ply ELSE 0,
          st |-> [st EXCEPT !.board = listed.board]]
    ELSE NegamaxOrdered([st EXCEPT !.board = listed.board],
                        OrderMoves(listed.board, listed.legal, st.ctx, nd.ply, hash_move),
                        nd, alpha)

NegamaxGenerate(st, nd, alpha, hash_move) ==
    NegamaxListed(st, ListLegal(st.board, FALSE), nd, alpha, hash_move)

(* child = the score of the null move and the state before undo_null_move *)
NegamaxNulled(child, nd, alpha, hash_move) ==
    IF child.score >= nd.beta
    THEN [score |-> nd.beta, st |-> [child.st EXCEPT !.board = undo_null_move(@)]]
    ELSE NegamaxGenerate([child.st EXCEPT !.board = undo_null_move(@)], nd, alpha, hash_move)

NegamaxProbed(st, nd, alpha, probe) ==
    IF probe.hit THEN [score |-> probe.score, st |-> st]
    ELSE IF /\ ~nd.in_check /\ nd.depth >= 3 /\ ~nd.is_pv /\ ~nd.no_null
            /\ has_non_pawn_material(st.board, get_player_to_move(st.board))
         THEN NegamaxNulled(Negate(negamax([st EXCEPT !.board = make_null_move(@)],
                                           nd.depth - 1 - 3, -nd.beta, -nd.beta + 1,
                                           nd.ply + 1, TRUE)),
                            nd, alpha, probe.hash_move)
         ELSE NegamaxGenerate(st, nd, alpha, probe.hash_move)

(* the node is on the path: draws by clock or material, then the probe *)
NegamaxOnPath(st, nd, alpha) ==
    IF get_halfmove_clock(st.board) >= 100 \/ is_insufficient_material(st.board)
    THEN [score |-> 0, st |-> st]
    ELSE NegamaxProbed(st, nd, alpha, tt_probe(st.tt, nd.hash, nd.depth, alpha, nd.beta, nd.ply))

(* for (int i = ply - 2; i >= 0; i -= 2) if (ctx->path_hashes[i] == hash) return 0 *)
Repeated(ctx, ply, hash) ==
    \E i \in 0 .. ply - 2 : (ply - i) % 2 = 0 /\ ctx.path_hashes[i + 1] = hash

NegamaxNode(st, nd, alpha) ==
    IF Repeated(st.ctx, nd.ply, nd.hash)
    THEN [score |-> 0, st |-> st]
    ELSE NegamaxOnPath(SetPathHash(st, nd.ply, nd.hash), nd, alpha)

(* bool is_pv = (beta - alpha) > 1: the int subtraction overflows for the full *)
(* window (INT_MAX - (INT_MIN + 1)), which is undefined                        *)
IsPv(st, alpha, beta) ==
    IF alpha < 0 /\ beta > INT_MAX + alpha THEN st.pv_overflow ELSE beta - alpha > 1

(* the search so far has evaluated beta - alpha on a window wider than INT_MAX *)
PvTested(st, alpha, beta) ==
    [st EXCEPT !.ctx.pv_unrepresentable = @ \/ (alpha < 0 /\ beta > INT_MAX + alpha)]

NegamaxEntered(st, depth, alpha, beta, ply, no_null, in_check) ==
    IF depth <= 0 /\ ~in_check THEN quiescence_search(st, alpha, beta)
    ELSE NegamaxNode(PvTested(Counted(st), alpha, beta),
                     [depth |-> IF depth <= 0 THEN 1 ELSE depth, beta |-> beta, ply |-> ply,
                      no_null |-> no_null, in_check |-> in_check,
                      is_pv |-> IsPv(st, alpha, beta), hash |-> get_hash(st.board)],
                     alpha)

(* static int negamax(board, depth, alpha, beta, ctx, ply, no_null, noise) *)
negamax(st, depth, alpha, beta, ply, no_null) ==
    NegamaxEntered(st, depth, alpha, beta, ply, no_null,
                   is_in_check(st.board, get_player_to_move(st.board)))

(***************************************************************************)
(* Top-level search with iterative deepening (Search.cpp)                  *)
(***************************************************************************)
RECURSIVE Deepen(_, _, _, _, _), RootRange(_, _, _, _, _)

(* child = the score of the root move m and the state before undo_move *)
RootScored(child, m, acc) ==
    [st |-> Unmade(child.st, m),
     acc |-> [alpha |-> Max(acc.alpha, child.score),
              best_score |-> Max(acc.best_score, child.score),
              best_move |-> IF child.score > acc.best_score THEN m ELSE acc.best_move]]

RootFull(first, d, alpha) ==
    IF first.score > alpha /\ first.score < INT_MAX
    THEN Negate(negamax(first.st, d - 1, -INT_MAX, -alpha, 1, FALSE))
    ELSE first

RootMove(made, i, d, alpha) ==
    IF i = 0 THEN Negate(negamax(made, d - 1, -INT_MAX, -alpha, 1, FALSE))
    ELSE RootFull(Negate(negamax(made, d - 1, -alpha - 1, -alpha, 1, FALSE)), d, alpha)

(* round i of the root loop of iteration d; run = [st, acc] *)
RootStep(run, m, i, d) == RootScored(RootMove(Made(run.st, m), i, d, run.acc.alpha), m, run.acc)

(* the rounds lo .. hi of the root loop, run as the lower half and then the upper half *)
RootRange(run, moves, lo, hi, d) ==
    IF lo > hi \/ ~Evaluated(run) THEN run
    ELSE IF lo = hi THEN RootStep(run, moves[lo + 1], lo, d)
    ELSE RootRange(RootRange(run, moves, lo, (lo + hi) \div 2, d),
                   moves, ((lo + hi) \div 2) + 1, hi, d)

(* the end of iteration d: the result so far, the root entry stored as exact *)
RootStored(run, moves, d, depth, result) ==
    Deepen([run.st EXCEPT !.tt = tt_store(@, get_hash(run.st.board), run.acc.best_score, d,
                                          run.acc.best_move, TT_EXACT, 0)],
           moves, d + 1, depth,
           [best_move |-> run.acc.best_move, score |-> run.acc.best_score,
            nodes |-> result.nodes + run.st.ctx.nodes])

Iteration(st, moves, d, depth, result) ==
    RootStored(RootRange([st |-> st,
                          acc |-> [alpha |-> INT_MIN + 1, best_score |-> INT_MIN,
                                   best_move |-> moves[1]]],
                         moves, 0, Len(moves) - 1, d),
               moves, d, depth, result)

(* for (int d = 1; d <= depth; d++): the moves keep the order of the iteration before *)
Deepen(st, moves, d, depth, result) ==
    IF d > depth
    THEN [best_move |-> result.best_move, score |-> result.score, nodes |-> result.nodes,
          tt |-> st.tt, board |-> st.board,
          pv_unrepresentable |-> st.ctx.pv_unrepresentable]
    ELSE Iteration([st EXCEPT !.ctx.nodes = 0],
                   OrderMoves(st.board, moves, st.ctx, 0,
                              tt_probe(st.tt, get_hash(st.board), 0, INT_MIN + 1, INT_MAX, 0).hash_move),
                   d, depth, result)

SearchListed(listed, depth, table, pv_overflow) ==
    IF Len(listed.legal) = 0
    THEN [best_move |-> NullMove,
          score |-> IF is_in_check(listed.board, get_player_to_move(listed.board)) THEN -100000 ELSE 0,
          nodes |-> 0, tt |-> table, board |-> listed.board, pv_unrepresentable |-> FALSE]
    ELSE Deepen([board |-> listed.board, tt |-> table,
                 ctx |-> [ClearContext EXCEPT !.path_hashes = <<get_hash(listed.board)>>],
                 pv_overflow |-> pv_overflow],
                listed.legal, 1, depth,
                [best_move |-> NullMove, score |-> INT_MIN, nodes |-> 0])

(* SearchResult search(Board& board, int depth, int noise) with noise = 0, on the  *)
(* transposition table as the calls before left it; pv_overflow is what the build  *)
(* makes of the overflowing beta - alpha. The result, with the table and the Board *)
(* after the call                                                                  *)
search(b, depth, table, pv_overflow) == SearchListed(ListLegal(b, FALSE), depth, table, pv_overflow)

(* a string literal as the sequence of its characters *)
Chars(str) == [i \in 1 .. Len(str) |-> SubSeq(str, i, i)]

(***************************************************************************)
(* The opening book (Search.cpp): position key -> the moves it lists       *)
(***************************************************************************)
OPENING_BOOK ==
    (Chars("rnbqkbnr/pppppppp/8/8/8/8/PPPPPPPP/RNBQKBNR w KQkq -") :>
        <<Chars("e2e4"), Chars("d2d4"), Chars("g1f3"), Chars("c2c4")>>) @@
    (Chars("rnbqkbnr/pppppppp/8/8/4P3/8/PPPP1PPP/RNBQKBNR b KQkq -") :>
        <<Chars("e7e5"), Chars("c7c5"), Chars("e7e6"), Chars("d7d5"), Chars("g8f6"), Chars("d7d6")>>) @@
    (Chars("rnbqkbnr/pppppppp/8/8/3P4/8/PPP1PPPP/RNBQKBNR b KQkq -") :>
        <<Chars("d7d5"), Chars("g8f6"), Chars("e7e6"), Chars("g7g6")>>) @@
    (Chars("rnbqkbnr/pppppppp/8/8/8/5N2/PPPPPPPP/RNBQKB1R b KQkq -") :>
        <<Chars("d7d5"), Chars("g8f6"), Chars("c7c5")>>) @@
    (Chars("rnbqkbnr/pppppppp/8/8/2P5/8/PP1PPPPP/RNBQKBNR b KQkq -") :>
        <<Chars("e7e5"), Chars("g8f6"), Chars("c7c5")>>) @@
    (Chars("rnbqkbnr/pppp1ppp/8/4p3/4P3/8/PPPP1PPP/RNBQKBNR w KQkq -") :>
        <<Chars("g1f3"), Chars("f1c4"), Chars("b1c3")>>) @@
    (Chars("rnbqkbnr/pppp1ppp/8/4p3/4P3/5N2/PPPP1PPP/RNBQKB1R b KQkq -") :>
        <<Chars("b8c6"), Chars("g8f6"), Chars("d7d6")>>) @@
    (Chars("r1bqkbnr/pppp1ppp/2n5/4p3/4P3/5N2/PPPP1PPP/RNBQKB1R w KQkq -") :>
        <<Chars("f1b5"), Chars("f1c4"), Chars("d2d4")>>) @@
    (Chars("r1bqkbnr/pppp1ppp/2n5/4p3/2B1P3/5N2/PPPP1PPP/RNBQK2R b KQkq -") :>
        <<Chars("f8c5"), Chars("g8f6")>>) @@
    (Chars("r1bqkbnr/pppp1ppp/2n5/1B2p3/4P3/5N2/PPPP1PPP/RNBQK2R b KQkq -") :>
        <<Chars("a7a6"), Chars("g8f6"), Chars("d7d6")>>) @@
    (Chars("rnbqkbnr/pp1ppppp/8/2p5/4P3/8/PPPP1PPP/RNBQKBNR w KQkq -") :>
        <<Chars("g1f3"), Chars("b1c3"), Chars("c2c3")>>) @@
    (Chars("rnbqkbnr/pp1ppppp/8/2p5/4P3/5N2/PPPP1PPP/RNBQKB1R b KQkq -") :>
        <<Chars("d7d6"), Chars("b8c6"), Chars("e7e6")>>) @@
    (Chars("rnbqkbnr/pp2pppp/3p4/2p5/4P3/5N2/PPPP1PPP/RNBQKB1R w KQkq -") :>
        <<Chars("d2d4")>>) @@
    (Chars("r1bqkbnr/pp1ppppp/2n5/2p5/4P3/5N2/PPPP1PPP/RNBQKB1R w KQkq -") :>
        <<Chars("d2d4"), Chars("f1b5")>>) @@
    (Chars("rnbqkbnr/pp1p1ppp/4p3/2p5/4P3/5N2/PPPP1PPP/RNBQKB1R w KQkq -") :>
        <<Chars("d2d4")>>) @@
    (Chars("rnbqkbnr/pppp1ppp/4p3/8/4P3/8/PPPP1PPP/RNBQKBNR w KQkq -") :>
        <<Chars("d2d4"), Chars("g1f3")>>) @@
    (Chars("rnbqkbnr/pppp1ppp/4p3/8/3PP3/8/PPP2PPP/RNBQKBNR b KQkq -") :>
        <<Chars("d7d5")>>) @@
    (Chars("rnbqkbnr/ppp1pppp/8/3p4/4P3/8/PPPP1PPP/RNBQKBNR w KQkq -") :>
        <<Chars("e4d5")>>) @@
    (Chars("rnbqkb1r/pppppppp/5n2/8/4P3/8/PPPP1PPP/RNBQKBNR w KQkq -") :>
        <<Chars("e4e5"), Chars("b1c3")>>) @@
    (Chars("rnbqkbnr/ppp1pppp/3p4/8/4P3/8/PPPP1PPP/RNBQKBNR w KQkq -") :>
        <<Chars("d2d4"), Chars("g1f3")>>) @@
    (Chars("rnbqkbnr/ppp1pppp/8/3p4/3P4/8/PPP1PPPP/RNBQKBNR w KQkq -") :>
        <<Chars("c2c4"), Chars("g1f3"), Chars("c1f4")>>) @@
    (Chars("rnbqkbnr/ppp1pppp/8/3p4/2PP4/8/PP2PPPP/RNBQKBNR b KQkq -") :>
        <<Chars("e7e6"), Chars("c7c6"), Chars("d5c4")>>) @@
    (Chars("rnbqkbnr/ppp2ppp/4p3/3p4/2PP4/8/PP2PPPP/RNBQKBNR w KQkq -") :>
        <<Chars("b1c3"), Chars("g1f3")>>) @@
    (Chars("rnbqkbnr/pp2pppp/2p5/3p4/2PP4/8/PP2PPPP/RNBQKBNR w KQkq -") :>
        <<Chars("g1f3"), Chars("b1c3")>>) @@
    (Chars("rnbqkb1r/pppppppp/5n2/8/3P4/8/PPP1PPPP/RNBQKBNR w KQkq -") :>
        <<Chars("c2c4"), Chars("g1f3")>>) @@
    (Chars("rnbqkb1r/pppppppp/5n2/8/2PP4/8/PP2PPPP/RNBQKBNR b KQkq -") :>
        <<Chars("e7e6"), Chars("g7g6"), Chars("c7c5")>>) @@
    (Chars("rnbqkb1r/pppp1ppp/4pn2/8/2PP4/8/PP2PPPP/RNBQKBNR w KQkq -") :>
        <<Chars("b1c3"), Chars("g1f3"), Chars("g2g3")>>) @@
    (Chars("rnbqkb1r/pppppp1p/5np1/8/2PP4/8/PP2PPPP/RNBQKBNR w KQkq -") :>
        <<Chars("b1c3")>>) @@
    (Chars("rnbqkb1r/pppppp1p/5np1/8/2PP4/2N5/PP2PPPP/R1BQKBNR b KQkq -") :>
        <<Chars("f8g7")>>) @@
    (Chars("rnbqkbnr/pppp1ppp/4p3/8/3P4/8/PPP1PPPP/RNBQKBNR w KQkq -") :>
        <<Chars("c2c4"), Chars("g1f3"), Chars("e2e4")>>) @@
    (Chars("rnbqkbnr/pppppp1p/6p1/8/3P4/8/PPP1PPPP/RNBQKBNR w KQkq -") :>
        <<Chars("c2c4"), Chars("e2e4")>>) @@
    (Chars("rnbqkbnr/ppp1pppp/8/3p4/8/5N2/PPPPPPPP/RNBQKB1R w KQkq -") :>
        <<Chars("d2d4"), Chars("g2g3"), Chars("c2c4")>>) @@
    (Chars("rnbqkb1r/pppppppp/5n2/8/8/5N2/PPPPPPPP/RNBQKB1R w KQkq -") :>
        <<Chars("d2d4"), Chars("c2c4"), Chars("g2g3")>>) @@
    (Chars("rnbqkbnr/pppp1ppp/8/4p3/2P5/8/PP1PPPPP/RNBQKBNR w KQkq -") :>
        <<Chars("b1c3"), Chars("g2g3"), Chars("g1f3")>>) @@
    (Chars("rnbqkb1r/pppppppp/5n2/8/2P5/8/PP1PPPPP/RNBQKBNR w KQkq -") :>
        <<Chars("b1c3"), Chars("g1f3"), Chars("d2d4")>>) @@
    (Chars("rnbqkbnr/pp1ppppp/8/2p5/2P5/8/PP1PPPPP/RNBQKBNR w KQkq -") :>
        <<Chars("g1f3"), Chars("b1c3")>>)

(* static std::string fen_position_key(const std::string& fen): the text before the *)
(* fourth space, or the whole string when it has fewer                              *)
RECURSIVE KeyEnd(_, _, _)
KeyEnd(fen, i, spaces) ==
    IF i > Len(fen) THEN Len(fen)
    ELSE IF fen[i] = " " /\ spaces + 1 = 4 THEN i - 1
    ELSE KeyEnd(fen, i + 1, IF fen[i] = " " THEN spaces + 1 ELSE spaces)
fen_position_key(fen) == SubSeq(fen, 1, KeyEnd(fen, 1, 0))

(* std::string book_lookup(const std::string& fen): the strings it can return, one of *)
(* the listed moves picked by std::rand(), or the empty string when there is no hit  *)
BookMoves(moves) == {moves[i] : i \in 1 .. Len(moves)}
book_lookup(fen) ==
    IF fen_position_key(fen) \in DOMAIN OPENING_BOOK
    THEN BookMoves(OPENING_BOOK[fen_position_key(fen)])
    ELSE {<<>>}

(***************************************************************************)
(* The Board as a state machine: a caller parses a FEN and then calls      *)
(* get_legal_moves, move, undo_move, make_null_move, undo_null_move.       *)
(***************************************************************************)

MaxPly == 2
MaxOps == 3

(* 1ULL << 64: the shift count is taken modulo 64 (x86) or the result is 0 (ARM) *)
Shift64Values == {{}, {a1}}

InitialFen == Chars("rnbqkbnr/pppppppp/8/8/8/8/PPPPPPPP/RNBQKBNR w KQkq - 0 1")
(* positions of games from the initial position, with few pieces left: castling *)
(* on either wing; promotions, captures, en passant and double pushes           *)
CastlingFen == Chars("r3k3/8/8/8/8/8/8/4K2R w Kq - 0 1")
PawnFen == Chars("1n2k3/P6p/5p2/3pP3/8/8/8/4K3 w - d6 0 2")
RooksFen == Chars("r3k2r/8/8/8/8/8/8/R3K2R w KQkq - 0 1")
BoardFens == {InitialFen, CastlingFen, PawnFen, RooksFen}

(* no request yet, no answer yet *)
NoRequest == [path |-> "", json |-> FALSE, has_fen |-> FALSE, has_uci_move |-> FALSE,
              fen |-> <<>>, uci_move |-> <<>>, depth |-> 0]
NoResponse == [http |-> 0, error |-> "", status |-> "", game_state |-> "", new_fen |-> <<>>,
               best_move |-> <<>>, score |-> 0, depth |-> 0, nodes |-> 0, generated |-> FALSE]

Last(q) == q[Len(q)]
Front(q) == SubSeq(q, 1, Len(q) - 1)
SeqToSet(q) == {q[i] : i \in 1 .. Len(q)}

Init ==
    /\ shift64 \in Shift64Values
    /\ \E f \in BoardFens : board = setup_with_fen(NewBoard, f).board
    /\ line = <<>>
    /\ ops = 0
    /\ request = NoRequest
    /\ resp = NoResponse
    /\ reqs = 0
    /\ tt = EmptyTable
    /\ log = <<>>
    /\ context = ClearContext
    /\ returned = <<>>
    /\ games = <<>>
    /\ game_moves = {}
    /\ handlers = <<>>

(* a call of get_legal_moves: every pseudo-legal move is made and undone on the board *)
GetLegalMoves ==
    /\ ops < MaxOps
    /\ board' = AfterLegalMoves(board)
    /\ ops' = ops + 1
    /\ UNCHANGED <<returned, context, shift64, line, request, resp, reqs, tt, log, games, game_moves, handlers>>

DoMove ==
    /\ ops < MaxOps
    /\ board.game_ply < MaxPly
    /\ \E m \in SeqToSet(get_legal_moves(board)) :
          /\ board' = move(board, m)
          /\ line' = Append(line, m)
    /\ ops' = ops + 1
    /\ UNCHANGED <<returned, context, shift64, request, resp, reqs, tt, log, games, game_moves, handlers>>

DoUndo ==
    /\ ops < MaxOps
    /\ line # <<>>
    /\ Last(line) # NullMove
    /\ board' = undo_move(board, Last(line))
    /\ line' = Front(line)
    /\ ops' = ops + 1
    /\ UNCHANGED <<returned, context, shift64, request, resp, reqs, tt, log, games, game_moves, handlers>>

(* the search makes a null move only when the side to move is not in check *)
DoNullMove ==
    /\ ops < MaxOps
    /\ board.game_ply < MaxPly
    /\ ~is_in_check(board, board.player_to_move)
    /\ board' = make_null_move(board)
    /\ line' = Append(line, NullMove)
    /\ ops' = ops + 1
    /\ UNCHANGED <<returned, context, shift64, request, resp, reqs, tt, log, games, game_moves, handlers>>

DoUndoNullMove ==
    /\ ops < MaxOps
    /\ line # <<>>
    /\ Last(line) = NullMove
    /\ board' = undo_null_move(board)
    /\ line' = Front(line)
    /\ ops' = ops + 1
    /\ UNCHANGED <<returned, context, shift64, request, resp, reqs, tt, log, games, game_moves, handlers>>

Next == GetLegalMoves \/ DoMove \/ DoUndo \/ DoNullMove \/ DoUndoNullMove

Spec == Init /\ [][Next]_vars

(***************************************************************************)
(* The tree of the legal moves from the initial position                   *)
(***************************************************************************)
MaxPerftDepth == 3

PerftInit ==
    /\ shift64 \in Shift64Values
    /\ board = setup_with_fen(NewBoard, InitialFen).board
    /\ line = <<>>
    /\ ops = 0
    /\ request = NoRequest
    /\ resp = NoResponse
    /\ reqs = 0
    /\ tt = EmptyTable
    /\ log = <<>>
    /\ context = ClearContext
    /\ returned = <<>>
    /\ games = <<>>
    /\ game_moves = {}
    /\ handlers = <<>>

(* the boards a caller can get to by listing the legal moves and playing one of them *)
MoveEach(listed) ==
    {[played |-> m, board |-> move(listed.board, m)] : m \in SeqToSet(listed.legal)}
ListAndMove(b) == MoveEach(ListLegal(b, FALSE))

PerftMove ==
    /\ Len(line) < MaxPerftDepth
    /\ \E next \in ListAndMove(board) :
          /\ board' = next.board
          /\ line' = Append(line, next.played)
    /\ ops' = ops + 1
    /\ UNCHANGED <<returned, context, shift64, request, resp, reqs, tt, log, games, game_moves, handlers>>

PerftNext == PerftMove

PerftSpec == PerftInit /\ [][PerftNext]_vars

(***************************************************************************)
(* The HTTP service (main.cpp): POST /move and POST /search. The process   *)
(* keeps the transposition table between the requests it serves.           *)
(***************************************************************************)
MaxRequests == 2
MaxDepth == 2

(* positions a client sends: the start of a game, few-piece positions of games, *)
(* positions one move before each way a game ends                               *)
BishopFen == Chars("k7/8/1K1B4/8/8/8/8/8 w - - 0 1")
FiftyFen == Chars("k7/8/1K1B4/8/8/8/8/8 w - - 99 1")
BackRankFen == Chars("6k1/5ppp/8/8/8/8/5PPP/R5K1 w - - 99 60")
MateInOneFen == Chars("6k1/5ppp/8/8/8/8/5PPP/R5K1 w - - 0 1")
RookFen == Chars("k7/8/1K6/8/8/8/8/7R w - - 0 1")
KingPawnFen == Chars("4k3/8/8/8/8/8/4P3/4K3 w - - 0 1")
CheckmatedFen == Chars("R5k1/5ppp/8/8/8/8/5PPP/6K1 b - - 1 1")
StalematedFen == Chars("7k/5Q2/6K1/8/8/8/8/8 b - - 0 1")
(* strings that are no FEN: five fields, a dot or a letter that is no piece in the *)
(* placement, an en-passant field that is no square, clocks that are no numbers    *)
ShortFen == Chars("4k3/8/8/8/8/8/4P3/4K3 w - - 0")
DotFen == Chars("4k3/8/8/8/8/8/4P.3/4K3 w - - 0 1")
LetterFen == Chars("4k3/8/8/8/8/8/4Px3/4K3 w - - 0 1")
EpFen == Chars("4k3/8/8/8/8/8/4P3/4K3 w - e9 0 1")
ClockFen == Chars("4k3/8/8/8/8/8/4P3/4K3 w - - x 1")
ClockTailFen == Chars("4k3/8/8/8/8/8/4P3/4K3 w - - 0 1x")
MalformedFens == {ShortFen, DotFen, LetterFen, EpFen, ClockFen, ClockTailFen}
MoveFens == {InitialFen, CastlingFen, PawnFen, BishopFen, FiftyFen, BackRankFen} \cup MalformedFens
SearchFens == {InitialFen, KingPawnFen, RookFen, MateInOneFen, BackRankFen, CheckmatedFen,
               StalematedFen}
                  \cup MalformedFens
JunkUci == {<<>>, Chars("e2e5"), Chars("e7e8k")}

Reply(http, error) == [NoResponse EXCEPT !.http = http, !.error = error]

(* what a build can make of undefined behaviour in a handler: the process dies *)
(* without an answer, or the handler goes on and answers                       *)
UndefinedReplies(generated) ==
    {[NoResponse EXCEPT !.generated = generated],
     [Reply(200, "") EXCEPT !.status = "INVALID", !.generated = generated]}

MoveReplies(result) ==
    IF result.result = "SYSTEM_ERROR" THEN {Reply(400, "failed to parse FEN")}
    ELSE IF result.result = "undefined" THEN UndefinedReplies(result.generated)
    ELSE {[Reply(200, "") EXCEPT !.status = result.status, !.game_state = result.game_state,
                                 !.new_fen = result.new_fen, !.generated = result.generated]}

(* svr.Post("/move", ...): the replies the handler can give to req *)
post_move(req) ==
    IF ~req.json THEN {Reply(400, "invalid JSON")}
    ELSE IF ~req.has_fen \/ ~req.has_uci_move THEN {Reply(400, "missing fen or uci_move")}
    ELSE MoveReplies(process_move(req.fen, req.uci_move))

(* int depth: beta - alpha overflows in the children of the root, and is_pv only *)
(* matters to null-move pruning, at depth >= 3 there                              *)
PvOutcomes(depth) == IF depth > 3 THEN BOOLEAN ELSE {FALSE}

SearchReply(result, depth) ==
    [reply |-> [Reply(200, "") EXCEPT !.best_move = to_uci(result.best_move),
                                      !.score = result.score, !.depth = depth,
                                      !.nodes = result.nodes, !.generated = TRUE],
     tt |-> result.tt]

SearchParsed(parsed, depth, table) ==
    IF parsed.outcome = "throw" THEN {[reply |-> Reply(400, "failed to parse FEN"), tt |-> table]}
    ELSE IF parsed.outcome = "ub"
         THEN {[reply |-> r, tt |-> table] : r \in UndefinedReplies(FALSE)}
    ELSE IF ~HasKing(parsed.board, WHITE) \/ ~HasKing(parsed.board, BLACK)
         THEN {[reply |-> r, tt |-> table] : r \in UndefinedReplies(TRUE)}
    ELSE {SearchReply(search(parsed.board, depth, table, pv), depth) : pv \in PvOutcomes(depth)}

(* svr.Post("/search", ...) with noise 0: the replies the handler can give to req, *)
(* each with the transposition table it leaves                                     *)
post_search(req, table) ==
    IF ~req.json THEN {[reply |-> Reply(400, "invalid JSON"), tt |-> table]}
    ELSE IF ~req.has_fen THEN {[reply |-> Reply(400, "missing fen"), tt |-> table]}
    ELSE IF req.depth < 1 \/ req.depth > 20
         THEN {[reply |-> Reply(400, "depth must be 1-20"), tt |-> table]}
    ELSE SearchParsed(setup_with_fen(NewBoard, req.fen), req.depth, table)

MoveRequest(f, u) == [path |-> "/move", json |-> TRUE, has_fen |-> TRUE, has_uci_move |-> TRUE,
                      fen |-> f, uci_move |-> u, depth |-> 0]
SearchRequest(f, d) == [path |-> "/search", json |-> TRUE, has_fen |-> TRUE, has_uci_move |-> FALSE,
                        fen |-> f, uci_move |-> <<>>, depth |-> d]

(* the move strings tried on a position: those of its pseudo-legal moves, and junk *)
UciInputs(parsed) ==
    JunkUci \cup
    (IF parsed.outcome = "ok" /\ HasKing(parsed.board, WHITE) /\ HasKing(parsed.board, BLACK)
     THEN {to_uci(m) : m \in SeqToSet(generate_pseudo_legal_moves(parsed.board))}
     ELSE {Chars("e1d1")})

MoveRequestsOn(f) == {MoveRequest(f, u) : u \in UciInputs(setup_with_fen(NewBoard, f))}

(* a client opens with one of MoveFens and goes on from the position it got back *)
MoveRequests(last) ==
    IF last.path = ""
    THEN UNION {MoveRequestsOn(f) : f \in MoveFens}
         \cup {[NoRequest EXCEPT !.path = "/move"],
               [NoRequest EXCEPT !.path = "/move", !.json = TRUE, !.has_fen = TRUE,
                                 !.fen = InitialFen]}
    ELSE MoveRequestsOn(resp.new_fen)

SearchDepths(f) == IF f \in {InitialFen, BackRankFen} THEN {1} ELSE 1 .. MaxDepth

SearchRequests ==
    UNION {{SearchRequest(f, d) : d \in SearchDepths(f)} : f \in SearchFens}
    \cup {SearchRequest(KingPawnFen, 0), SearchRequest(KingPawnFen, 21),
          [NoRequest EXCEPT !.path = "/search"],
          [NoRequest EXCEPT !.path = "/search", !.json = TRUE, !.depth = 4]}

ApiInit ==
    /\ shift64 \in Shift64Values
    /\ board = NewBoard
    /\ line = <<>>
    /\ ops = 0
    /\ request = NoRequest
    /\ resp = NoResponse
    /\ reqs = 0
    /\ tt = EmptyTable
    /\ log = <<>>
    /\ context = ClearContext
    /\ returned = <<>>
    /\ games = <<>>
    /\ game_moves = {}
    /\ handlers = <<>>

(* a game played through /move: after the first request, the position sent is the *)
(* new_fen of the answer before                                                    *)
PostMove ==
    /\ reqs < MaxRequests
    /\ request.path # "/search"
    /\ request.path = "/move" => resp.status = "VALID"
    /\ \E req \in MoveRequests(request) :
          /\ request' = req
          /\ resp' \in post_move(req)
    /\ reqs' = reqs + 1
    /\ UNCHANGED <<returned, context, shift64, board, line, ops, tt, log, games, game_moves, handlers>>

(* a series of /search requests to one process *)
PostSearch ==
    /\ reqs < MaxRequests
    /\ request.path # "/move"
    /\ reqs > 0 => resp.http # 0
    /\ \E req \in SearchRequests :
          /\ request' = req
          /\ \E out \in post_search(req, tt) :
                /\ resp' = out.reply
                /\ tt' = out.tt
                /\ log' = Append(log, [fen |-> req.fen, depth |-> req.depth,
                                       best_move |-> out.reply.best_move,
                                       score |-> out.reply.score, nodes |-> out.reply.nodes,
                                       http |-> out.reply.http])
    /\ reqs' = reqs + 1
    /\ UNCHANGED <<returned, context, shift64, board, line, ops, games, game_moves, handlers>>

ApiNext == PostMove \/ PostSearch

ApiSpec == ApiInit /\ [][ApiNext]_vars

(***************************************************************************)
(* The transposition table under a sequence of tt_store calls              *)
(***************************************************************************)
MaxTtDepth == 3

(* two slots, two keys to each *)
TtKeys == {{1}, {1} \cup HighBits, {2}, {2} \cup HighBits}
TtScores == {-50, 99999}
TtFlags == {TT_EXACT, TT_BETA}
TtCalls ==
    [key : TtKeys, score : TtScores, depth : 1 .. MaxTtDepth, best : {Move(e1, a1 + 12, QUIET)},
     flag : TtFlags, ply : {1}]

TtInit ==
    /\ shift64 \in Shift64Values
    /\ board = NewBoard
    /\ line = <<>>
    /\ ops = 0
    /\ request = NoRequest
    /\ resp = NoResponse
    /\ reqs = 0
    /\ tt = EmptyTable
    /\ log = <<>>
    /\ context = ClearContext
    /\ returned = <<>>
    /\ games = <<>>
    /\ game_moves = {}
    /\ handlers = <<>>

(* one call of tt_store; log holds the arguments of the last call *)
TtStore ==
    /\ \E call \in TtCalls :
          /\ tt' = tt_store(tt, call.key, call.score, call.depth, call.best, call.flag, call.ply)
          /\ log' = <<call>>
    /\ UNCHANGED <<returned, context, shift64, board, line, ops, request, resp, reqs, games, game_moves, handlers>>

TtNext == TtStore

TtSpec == TtInit /\ [][TtNext]_vars

(***************************************************************************)
(* tt_store followed by tt_probe on one slot of the transposition table    *)
(***************************************************************************)
MaxProbeDepth == 2
MaxProbePly == 2

(* one slot, two keys to it *)
ProbeKeys == {{1}, {1} \cup HighBits}
(* scores of negamax: evaluations, and mates at a distance of one and two plies *)
ProbeScores == {-99999, -50, 50, 99998}
ProbeStores ==
    [key : ProbeKeys, score : ProbeScores, depth : 1 .. MaxProbeDepth,
     best : {Move(e1, a1 + 12, QUIET)}, flag : {TT_EXACT, TT_ALPHA, TT_BETA},
     ply : {0, MaxProbePly}]
(* a wide window and a null window *)
ProbeWindows == {[alpha |-> -100, beta |-> 100], [alpha |-> 0, beta |-> 1]}
ProbeCalls ==
    [key : ProbeKeys, depth : 1 .. MaxProbeDepth, window : ProbeWindows, ply : {0, MaxProbePly}]

(* one call of tt_store; log holds the call and whether the slot took it *)
ProbeStore ==
    /\ \E call \in ProbeStores :
          /\ tt' = tt_store(tt, call.key, call.score, call.depth, call.best, call.flag, call.ply)
          /\ log' = <<[call |-> call,
                       accepted |-> \/ Slot(tt, call.key).key # call.key
                                    \/ call.depth >= Slot(tt, call.key).depth]>>
    /\ UNCHANGED <<returned, context, shift64, board, line, ops, request, resp, reqs, games, game_moves, handlers>>

(* one call of tt_probe after the last tt_store; log holds both calls, the probe *)
(* with what it returned                                                         *)
ProbeCall ==
    /\ log # <<>>
    /\ \E call \in ProbeCalls :
          log' = <<log[1],
                   [call |-> call,
                    result |-> tt_probe(tt, call.key, call.depth, call.window.alpha,
                                       call.window.beta, call.ply)]>>
    /\ UNCHANGED <<returned, context, shift64, board, line, ops, request, resp, reqs, tt, games, game_moves, handlers>>

ProbeNext == ProbeStore \/ ProbeCall

ProbeSpec == TtInit /\ [][ProbeNext]_vars

(***************************************************************************)
(* The path of the search: negamax descends by Board::move or by a null    *)
(* move, tests the new node for a repetition, writes its hash, and comes   *)
(* back by the undo. Which children a node searches depends on its depth   *)
(* and window; here a node may search any of them, in any order            *)
(***************************************************************************)
MaxPathPly == 4

PathFen == Chars("4k2r/8/8/8/8/8/8/4K2R w - - 0 1")
(* the moves the nodes search *)
PathUci == {Chars("e1d1"), Chars("d1e1"), Chars("e8d8"), Chars("d8e8"), Chars("h1g1")}

(* search(): ctx.clear(); ctx.path_hashes[0] = board.get_hash(). log holds, for *)
(* each node of the path, its hash and what the repetition test said            *)
PathInit ==
    /\ shift64 \in Shift64Values
    /\ board = setup_with_fen(NewBoard, PathFen).board
    /\ line = <<>>
    /\ ops = 0
    /\ request = NoRequest
    /\ resp = NoResponse
    /\ reqs = 0
    /\ tt = EmptyTable
    /\ log = <<>>
    /\ context = ClearContext
    /\ returned = <<>>
    /\ games = <<>>
    /\ game_moves = {}
    /\ handlers = <<>>

(* search() seeds the root *)
PathSeed ==
    /\ log = <<>>
    /\ context' = SetPathHash([ctx |-> context], 0, get_hash(board)).ctx
    /\ log' = <<[hash |-> get_hash(board), repeated |-> FALSE]>>
    /\ UNCHANGED <<returned, shift64, board, line, ops, request, resp, reqs, tt, games, game_moves, handlers>>

(* the node at the end of the path searches children: it passed the repetition *)
(* test and the draw tests                                                     *)
PathOpen ==
    /\ log # <<>>
    /\ ~Last(log).repeated
    /\ Len(line) < MaxPathPly
    /\ ~(get_halfmove_clock(board) >= 100 \/ is_insufficient_material(board))

(* negamax at ply, on the board after the move: the repetition test, then *)
(* ctx->path_hashes[ply] = hash                                           *)
PathNode(b, ply) ==
    /\ log' = Append(log, [hash |-> get_hash(b), repeated |-> Repeated(context, ply, get_hash(b))])
    /\ context' = IF Repeated(context, ply, get_hash(b)) THEN context
                  ELSE SetPathHash([ctx |-> context], ply, get_hash(b)).ctx

PathMove ==
    /\ PathOpen
    /\ \E m \in SeqToSet(get_legal_moves(board)) :
          /\ to_uci(m) \in PathUci
          /\ board' = move(board, m)
          /\ line' = Append(line, m)
          /\ PathNode(move(board, m), Len(line) + 1)
    /\ UNCHANGED <<returned, shift64, ops, request, resp, reqs, tt, games, game_moves, handlers>>

(* the null move: not in check, and not the child of a null move (no_null) *)
PathNullMove ==
    /\ PathOpen
    /\ ~is_in_check(board, get_player_to_move(board))
    /\ IF line = <<>> THEN TRUE ELSE Last(line) # NullMove
    /\ board' = make_null_move(board)
    /\ line' = Append(line, NullMove)
    /\ PathNode(make_null_move(board), Len(line) + 1)
    /\ UNCHANGED <<returned, shift64, ops, request, resp, reqs, tt, games, game_moves, handlers>>

(* negamax returns to its caller, which takes the move back *)
PathReturn ==
    /\ line # <<>>
    /\ board' = IF Last(line) = NullMove THEN undo_null_move(board) ELSE undo_move(board, Last(line))
    /\ line' = Front(line)
    /\ log' = Front(log)
    /\ UNCHANGED <<returned, context, shift64, ops, request, resp, reqs, tt, games, game_moves, handlers>>

PathNext == PathSeed \/ PathMove \/ PathNullMove \/ PathReturn

PathSpec == PathInit /\ [][PathNext]_vars

(***************************************************************************)
(* The beta cut-offs of one search: killers and history                    *)
(***************************************************************************)
MaxCutoffs == 3
MaxCutDepth == 2

(* the last ply with killer slots and the first without *)
CutPlies == {63, 64}
(* three quiet moves and a capture of the position RooksFen *)
CutMoves == {Move(e1, d1, QUIET), Move(e1, e1 + 1, QUIET), Move(h1, h1 - 1, QUIET),
             Move(h1, h8, CAPTURE)}

(* ctx.clear(), or the history entry of e1d1 as many cut-offs left it *)
CutInit ==
    /\ shift64 \in Shift64Values
    /\ board = setup_with_fen(NewBoard, RooksFen).board
    /\ line = <<>>
    /\ ops = 0
    /\ request = NoRequest
    /\ resp = NoResponse
    /\ reqs = 0
    /\ tt = EmptyTable
    /\ log = <<>>
    /\ \/ context = ClearContext
       \/ context = [ClearContext EXCEPT !.history = <<WHITE, e1, d1>> :> 999999]
    /\ returned = <<>>
    /\ games = <<>>
    /\ game_moves = {}
    /\ handlers = <<>>

(* the move m of the node at ply, searched to depth, raised alpha to beta or more; *)
(* log holds the cut-offs so far                                                   *)
Cutoff ==
    /\ Len(log) < MaxCutoffs
    /\ \E ply \in CutPlies, m \in CutMoves, depth \in 1 .. MaxCutDepth :
          /\ context' = NegamaxCut([board |-> board, ctx |-> context], m,
                                   [ply |-> ply, depth |-> depth, beta |-> 0],
                                   [alpha |-> 0, tt_flag |-> TT_EXACT]).st.ctx
          /\ log' = Append(log, [ply |-> ply, move |-> m, depth |-> depth])
    /\ UNCHANGED <<returned, shift64, board, line, ops, request, resp, reqs, tt, games, game_moves, handlers>>

CutNext == Cutoff

CutSpec == CutInit /\ [][CutNext]_vars

(***************************************************************************)
(* Calls of search and negamax at the nodes of a short path: the Board     *)
(* when the call returns                                                   *)
(***************************************************************************)
MaxReturnPly == 2
MaxReturnDepth == 2
MaxCalls == 2

ReturnFen == Chars("1n2k3/7p/8/8/8/8/P7/4K1N1 w - - 0 1")
(* a wide window and a null window *)
ReturnWindows == {[alpha |-> -100000, beta |-> 100000], [alpha |-> 0, beta |-> 1]}
(* a null window under every evaluation: the null move fails high *)
LowWindow == [alpha |-> -600, beta |-> -599]

(* what a caller of the search sees of the Board *)
SearchView(b) ==
    [game_ply |-> b.game_ply, player_to_move |-> get_player_to_move(b),
     bitboards |-> b.bitboards, occupancy |-> b.occupancy,
     placement |-> [s \in Squares |->
                       IF get_piece_type_on_square(b, s) = NO_PIECE_TYPE THEN <<NO_PIECE_TYPE>>
                       ELSE <<get_piece_type_on_square(b, s), get_piece_color_on_square(b, s)>>],
     castling_rights |-> b.castling_rights, epsq |-> History(b, b.game_ply).epsq,
     halfmove_clock |-> get_halfmove_clock(b), full_move_counter |-> b.full_move_counter,
     hash |-> get_hash(b)]

ReturnInit ==
    /\ shift64 \in Shift64Values
    /\ board = setup_with_fen(NewBoard, ReturnFen).board
    /\ line = <<>>
    /\ ops = 0
    /\ request = NoRequest
    /\ resp = NoResponse
    /\ reqs = 0
    /\ tt = EmptyTable
    /\ log = <<>>
    /\ context = ClearContext
    /\ returned = <<>>
    /\ games = <<>>
    /\ game_moves = {}
    /\ handlers = <<>>

(* the search goes down the path by a king move *)
ReturnMove ==
    /\ Len(line) < MaxReturnPly
    /\ PathMove
    /\ returned' = returned

(* the state of the search at the node: the table, and the path_hashes of the ancestors *)
NodeState(pv_overflow) ==
    [board |-> board, tt |-> tt,
     ctx |-> [context EXCEPT !.path_hashes = SubSeq(@, 1, Len(line))],
     pv_overflow |-> pv_overflow]

Returned(name, depth, window, result) ==
    /\ board' = result.board
    /\ tt' = result.tt
    /\ returned' = [call |-> name, depth |-> depth, window |-> window, score |-> result.score,
                    nodes |-> result.nodes, pv_unrepresentable |-> result.pv_unrepresentable,
                    entry |-> SearchView(board), exit |-> SearchView(result.board)]
    /\ ops' = ops + 1
    /\ UNCHANGED <<shift64, line, request, resp, reqs, log, context, games, game_moves, handlers>>

(* negamax(board, depth, alpha, beta, ctx, ply, false) at the node of the path *)
CallNegamax ==
    /\ log # <<>>
    /\ ops < MaxCalls
    /\ \E depth \in 1 .. MaxReturnDepth, window \in ReturnWindows :
          \E r \in {negamax(NodeState(FALSE), depth, window.alpha, window.beta, Len(line), FALSE)} :
              Returned("negamax", depth, window,
                       [board |-> r.st.board, tt |-> r.st.tt, score |-> r.score,
                        nodes |-> r.st.ctx.nodes,
                        pv_unrepresentable |-> r.st.ctx.pv_unrepresentable])

(* negamax at the depth of the null move, on a window the null move fails high on *)
CallNullMove ==
    /\ log # <<>>
    /\ ops < MaxCalls
    /\ \E r \in {negamax(NodeState(FALSE), 3, LowWindow.alpha, LowWindow.beta, Len(line), FALSE)} :
           Returned("negamax", 3, LowWindow,
                    [board |-> r.st.board, tt |-> r.st.tt, score |-> r.score,
                     nodes |-> r.st.ctx.nodes,
                     pv_unrepresentable |-> r.st.ctx.pv_unrepresentable])

(* search(board, depth, 0) on the Board of the node *)
CallSearch ==
    /\ log # <<>>
    /\ ops < MaxCalls
    /\ \E depth \in 1 .. MaxReturnDepth : \E pv_overflow \in PvOutcomes(depth) :
          \E r \in {search(board, depth, tt, pv_overflow)} :
              Returned("search", depth, <<>>, r)

ReturnNext == PathSeed \/ ReturnMove \/ CallNegamax \/ CallNullMove \/ CallSearch

ReturnSpec == ReturnInit /\ [][ReturnNext]_vars

(***************************************************************************)
(* Positions at the end of a game: what process_move calls them and how    *)
(* negamax scores them as children of the root                             *)
(***************************************************************************)
MaxTerminalDepth == 1

StalemateInOneFen == Chars("7k/8/6K1/8/8/8/8/5Q2 w - - 99 1")
TerminalFens == {BackRankFen, MateInOneFen, StalemateInOneFen, FiftyFen}

TerminalInit ==
    /\ shift64 \in Shift64Values
    /\ \E f \in TerminalFens : board = setup_with_fen(NewBoard, f).board
    /\ line = <<>>
    /\ ops = 0
    /\ request = NoRequest
    /\ resp = NoResponse
    /\ reqs = 0
    /\ tt = EmptyTable
    /\ log = <<>>
    /\ context = ClearContext
    /\ returned = <<>>
    /\ games = <<>>
    /\ game_moves = {}
    /\ handlers = <<>>

(* process_move on the FEN of the position and a legal move; the search makes the *)
(* same move at the root, whose hash it has put in path_hashes[0]                 *)
TerminalMove ==
    /\ line = <<>>
    /\ \E m \in SeqToSet(get_legal_moves(board)) :
          /\ \E reply \in {process_move(to_fen(board), to_uci(m))} :
                resp' = [NoResponse EXCEPT !.status = reply.status,
                                           !.game_state = reply.game_state,
                                           !.new_fen = reply.new_fen]
          /\ board' = move(board, m)
          /\ line' = <<m>>
    /\ context' = SetPathHash([ctx |-> context], 0, get_hash(board)).ctx
    /\ UNCHANGED <<returned, shift64, ops, request, reqs, tt, log, games, game_moves, handlers>>

(* negamax(board, depth, alpha, beta, ctx, 1, false) on the position after the move *)
TerminalScore ==
    /\ line # <<>>
    /\ returned = <<>>
    /\ \E depth \in 1 .. MaxTerminalDepth :
          \E r \in {negamax([board |-> board, tt |-> tt, ctx |-> context, pv_overflow |-> FALSE],
                           depth, -100000, 100000, 1, FALSE)} :
              /\ returned' = [call |-> "negamax", depth |-> depth, ply |-> 1, score |-> r.score]
              /\ board' = r.st.board
              /\ tt' = r.st.tt
    /\ UNCHANGED <<shift64, line, ops, request, resp, reqs, log, context, games, game_moves, handlers>>

TerminalNext == TerminalMove \/ TerminalScore

TerminalSpec == TerminalInit /\ [][TerminalNext]_vars

(***************************************************************************)
(* The referee (backend/game.go): one game, concurrent POST /move requests *)
(* and the goroutines of fireBotMove, over one PostgreSQL database at the  *)
(* default isolation level READ COMMITTED                                  *)
(***************************************************************************)
MaxMoveRequests == 2

ENGINE_ID == 0
Users == {1, 2}
MoveHandlers == 1 .. MaxMoveRequests
(* the goroutine that the request of handler h fires *)
BotOf(h) == h + MaxMoveRequests
BotHandlers == {BotOf(h) : h \in MoveHandlers}

botDepthByDifficulty == (1 :> 2) @@ (2 :> 4) @@ (3 :> 6) @@ (4 :> 8)

(* strings.Fields(fen) *)
Fields(fen) == SelectSeq(Split(fen, " "), LAMBDA part : part # <<>>)

(* 'w' or 'b' from the second field of a FEN string, "" for the error *)
activeColor(fen) ==
    LET parts == Fields(fen)
    IN  IF Len(parts) < 2 \/ Len(parts[2]) # 1 THEN ""
        ELSE IF parts[2][1] \notin {"w", "b"} THEN ""
        ELSE parts[2][1]

NewStatus(game_state) ==
    IF game_state \in {"CHECKMATE", "STALEMATE", "DRAW_50_MOVE", "DRAW_INSUFFICIENT"}
    THEN "finished" ELSE "active"

(* INSERT INTO games (white_id, black_id): current_fen and status take their defaults *)
NewGame(white_id, black_id, bot_depth) ==
    [white_id |-> white_id, black_id |-> black_id, current_fen |-> InitialFen,
     status |-> "active", bot_depth |-> bot_depth]

NoGame == [white_id |-> 0, black_id |-> 0, current_fen |-> <<>>, status |-> "", bot_depth |-> 0]

(* the locals of a handler or of a goroutine of fireBotMove *)
Idle == [pc |-> "idle", user |-> 0, uci |-> <<>>, fen |-> <<>>, new_fen |-> <<>>,
         new_status |-> "", game_state |-> "", ply |-> 0, http |-> 0]

Answer(user, uci, http) == [Idle EXCEPT !.pc = "done", !.user = user, !.uci = uci, !.http = http]

(* moveHandler from the request to the answer of the engine: the game row is read *)
(* by one SELECT outside of any transaction                                       *)
Validate(game, user, uci, reply) ==
    IF reply.http = 0 THEN Answer(user, uci, 502)
    ELSE IF reply.http # 200 THEN Answer(user, uci, 502)
    ELSE IF reply.status = "INVALID" THEN Answer(user, uci, 422)
    ELSE [Idle EXCEPT !.pc = "validated", !.user = user, !.uci = uci,
                      !.fen = game.current_fen, !.new_fen = reply.new_fen,
                      !.game_state = reply.game_state,
                      !.new_status = NewStatus(reply.game_state)]

moveHandlerLoad(game, user, uci) ==
    IF uci = <<>> THEN {Answer(user, uci, 400)}
    ELSE IF game.status # "active" THEN {Answer(user, uci, 409)}
    ELSE IF activeColor(game.current_fen) = "" THEN {Answer(user, uci, 500)}
    ELSE IF activeColor(game.current_fen) = "w" /\ user # game.white_id
         THEN {Answer(user, uci, 403)}
    ELSE IF activeColor(game.current_fen) = "b" /\ user # game.black_id
         THEN {Answer(user, uci, 403)}
    ELSE {Validate(game, user, uci, reply) :
             reply \in post_move(MoveRequest(game.current_fen, uci))}

(* the moves the players send, and the best_move answers of the engine to the bot: *)
(* the engine's table holds what the searches of every game left in it             *)
UserUci == {<<>>, Chars("e2e4"), Chars("d2d4"), Chars("e7e5")}
BotUci == {<<>>, Chars("e7e5"), Chars("g8f6")}

(* fireBotMove from the /search answer to the /move answer: fen is the argument of *)
(* the goroutine, the game row is not read                                         *)
BotValidate(fen, best_move, reply) ==
    IF reply.http = 0 \/ reply.status # "VALID" THEN Answer(ENGINE_ID, best_move, 0)
    ELSE [Idle EXCEPT !.pc = "validated", !.user = ENGINE_ID, !.uci = best_move,
                      !.fen = fen, !.new_fen = reply.new_fen,
                      !.game_state = reply.game_state,
                      !.new_status = NewStatus(reply.game_state)]

fireBotMoveLoad(fen, best_move) ==
    IF best_move = <<>> THEN {Answer(ENGINE_ID, best_move, 0)}
    ELSE {BotValidate(fen, best_move, reply) : reply \in post_move(MoveRequest(fen, best_move))}

(* SELECT COUNT + 1 FROM moves WHERE game_id = $1 *)
NextPly(rows) == Cardinality(rows) + 1

(* UPDATE games locks the row until the transaction ends *)
RowLocked == \E h \in DOMAIN handlers : handlers[h].pc = "updated"

MoveRow(local) == [ply |-> local.ply, uci |-> local.uci, fen_after |-> local.new_fen]

(* UNIQUE (game_id, ply) *)
UniqueViolation(rows, row) == \E r \in rows : r.ply = row.ply

(* go fireBotMove(db, body.GameID, engineResp.NewFEN, botDepth) *)
FiresBot(game, local) ==
    LET opponentID == IF local.user = game.black_id THEN game.white_id ELSE game.black_id
    IN  local.user # ENGINE_ID /\ opponentID = ENGINE_ID /\ local.new_status = "active"

Spawned(fen) == [Idle EXCEPT !.pc = "spawned", !.user = ENGINE_ID, !.fen = fen]

RefereeInit ==
    /\ shift64 \in Shift64Values
    /\ board = NewBoard
    /\ line = <<>>
    /\ ops = 0
    /\ request = NoRequest
    /\ resp = NoResponse
    /\ reqs = 0
    /\ tt = EmptyTable
    /\ log = <<>>
    /\ context = ClearContext
    /\ returned = <<>>
    /\ \/ games = NewGame(1, 2, 0)
       \/ games = NewGame(1, ENGINE_ID, botDepthByDifficulty[1])
    /\ game_moves = {}
    /\ handlers = [h \in MoveHandlers \cup BotHandlers |-> Idle]

(* a POST /move arrives and is handled up to the answer of the engine *)
MoveHandlerLoadFrom(ucis) ==
    \E h \in MoveHandlers, user \in Users, uci \in ucis :
        /\ handlers[h].pc = "idle"
        /\ \E local \in moveHandlerLoad(games, user, uci) :
              handlers' = [handlers EXCEPT ![h] = local]
        /\ UNCHANGED <<returned, context, shift64, board, line, ops, request, resp, reqs, tt, log, games, game_moves>>

MoveHandlerLoad == MoveHandlerLoadFrom(UserUci)

(* the goroutine asks the engine for a move and lets the engine apply it *)
FireBotMoveLoad ==
    \E h \in BotHandlers, best_move \in BotUci :
        /\ handlers[h].pc = "spawned"
        /\ \E local \in fireBotMoveLoad(handlers[h].fen, best_move) :
              handlers' = [handlers EXCEPT ![h] = local]
        /\ UNCHANGED <<returned, context, shift64, board, line, ops, request, resp, reqs, tt, log, games, game_moves>>

(* db.Begin() and the SELECT COUNT + 1 *)
TxCount ==
    \E h \in DOMAIN handlers :
        /\ handlers[h].pc = "validated"
        /\ handlers' = [handlers EXCEPT ![h].pc = "counted", ![h].ply = NextPly(game_moves)]
        /\ UNCHANGED <<returned, context, shift64, board, line, ops, request, resp, reqs, tt, log, games, game_moves>>

(* UPDATE games SET current_fen, status: waits for the row lock *)
TxUpdate ==
    \E h \in DOMAIN handlers :
        /\ handlers[h].pc = "counted"
        /\ ~RowLocked
        /\ handlers' = [handlers EXCEPT ![h].pc = "updated"]
        /\ UNCHANGED <<returned, context, shift64, board, line, ops, request, resp, reqs, tt, log, games, game_moves>>

(* INSERT INTO moves and tx.Commit(), or the rollback after the failed INSERT; *)
(* after the commit the handler fires the bot and answers                      *)
TxInsertCommit ==
    \E h \in DOMAIN handlers :
        /\ handlers[h].pc = "updated"
        /\ IF UniqueViolation(game_moves, MoveRow(handlers[h]))
           THEN /\ handlers' = [handlers EXCEPT ![h].pc = "done",
                                                ![h].http = IF h \in MoveHandlers THEN 500 ELSE 0]
                /\ UNCHANGED <<games, game_moves>>
           ELSE /\ game_moves' = game_moves \cup {MoveRow(handlers[h])}
                /\ games' = [games EXCEPT !.current_fen = handlers[h].new_fen,
                                          !.status = handlers[h].new_status]
                /\ handlers' =
                      IF FiresBot(games, handlers[h])
                      THEN [handlers EXCEPT ![h].pc = "done", ![h].http = 200,
                                            ![BotOf(h)] = Spawned(handlers[h].new_fen)]
                      ELSE [handlers EXCEPT ![h].pc = "done",
                                            ![h].http = IF h \in MoveHandlers THEN 200 ELSE 0]
        /\ UNCHANGED <<returned, context, shift64, board, line, ops, request, resp, reqs, tt, log>>

RefereeNext == MoveHandlerLoad \/ FireBotMoveLoad \/ TxCount \/ TxUpdate \/ TxInsertCommit

RefereeSpec == RefereeInit /\ [][RefereeNext]_vars

(***************************************************************************)
(* The referee on a game of two players that the next move can finish:     *)
(* 1. f3 e5 2. g4, Black to move                                           *)
(***************************************************************************)
FoolsMoves ==
    {[ply |-> 1, uci |-> Chars("f2f3"),
      fen_after |-> Chars("rnbqkbnr/pppppppp/8/8/8/5P2/PPPPP1PP/RNBQKBNR b KQkq - 0 1")],
     [ply |-> 2, uci |-> Chars("e7e5"),
      fen_after |-> Chars("rnbqkbnr/pppp1ppp/8/4p3/8/5P2/PPPPP1PP/RNBQKBNR w KQkq e6 0 2")],
     [ply |-> 3, uci |-> Chars("g2g4"),
      fen_after |-> Chars("rnbqkbnr/pppp1ppp/8/4p3/6P1/5P2/PPPPP2P/RNBQKBNR b KQkq g3 0 2")]}
FoolsFen == Chars("rnbqkbnr/pppp1ppp/8/4p3/6P1/5P2/PPPPP2P/RNBQKBNR b KQkq g3 0 2")
(* the mate and another move of Black *)
FinishUci == {Chars("d8h4"), Chars("d8e7")}

FinishInit ==
    /\ shift64 \in Shift64Values
    /\ board = NewBoard
    /\ line = <<>>
    /\ ops = 0
    /\ request = NoRequest
    /\ resp = NoResponse
    /\ reqs = 0
    /\ tt = EmptyTable
    /\ log = <<>>
    /\ context = ClearContext
    /\ returned = <<>>
    /\ games = [NewGame(1, 2, 0) EXCEPT !.current_fen = FoolsFen]
    /\ game_moves = FoolsMoves
    /\ handlers = [h \in MoveHandlers \cup BotHandlers |-> Idle]

FinishLoad == MoveHandlerLoadFrom(FinishUci)

FinishNext == FinishLoad \/ TxCount \/ TxUpdate \/ TxInsertCommit

FinishSpec == FinishInit /\ [][FinishNext]_vars

(***************************************************************************)
(* Reference definitions on the mailbox, independent of the attack tables  *)
(***************************************************************************)
OnBoard(r, f) == r \in 0 .. 7 /\ f \in 0 .. 7
IsPiece(b, r, f, pt, c) ==
    OnBoard(r, f) /\ b.mailbox[r * 8 + f].type = pt /\ b.mailbox[r * 8 + f].color = c

(* the first occupied square strictly beyond (r, f) in direction (dr, df) *)
RECURSIVE FirstOnRay(_, _, _, _, _)
FirstOnRay(b, r, f, dr, df) ==
    IF ~OnBoard(r + dr, f + df) THEN NO_SQUARE
    ELSE IF b.mailbox[(r + dr) * 8 + f + df].type # NO_PIECE_TYPE THEN (r + dr) * 8 + f + df
    ELSE FirstOnRay(b, r + dr, f + df, dr, df)

KnightJumps == {<<1, 2>>, <<2, 1>>, <<-1, 2>>, <<-2, 1>>, <<1, -2>>, <<2, -1>>, <<-1, -2>>, <<-2, -1>>}
Diagonals == {<<1, 1>>, <<1, -1>>, <<-1, 1>>, <<-1, -1>>}
Straights == {<<1, 0>>, <<-1, 0>>, <<0, 1>>, <<0, -1>>}

(* square sq is attacked by a piece of colour by, by the rules of chess *)
AttackedOnMailbox(b, sq, by) ==
    LET r == sq \div 8
        f == sq % 8
        pawn_rank == IF by = WHITE THEN r - 1 ELSE r + 1
        slider(d, kinds) ==
            LET t == FirstOnRay(b, r, f, d[1], d[2])
            IN  t # NO_SQUARE /\ b.mailbox[t].color = by /\ b.mailbox[t].type \in kinds
    IN  \/ \E df \in {-1, 1} : IsPiece(b, pawn_rank, f + df, PAWN, by)
        \/ \E d \in KnightJumps : IsPiece(b, r + d[1], f + d[2], KNIGHT, by)
        \/ \E d \in Diagonals \cup Straights : IsPiece(b, r + d[1], f + d[2], KING, by)
        \/ \E d \in Diagonals : slider(d, {BISHOP, QUEEN})
        \/ \E d \in Straights : slider(d, {ROOK, QUEEN})

KingSquareOnMailbox(b, c) == CHOOSE s \in Squares : b.mailbox[s] = Piece(KING, c)

(* after m the king of the side that moved is not attacked *)
KingSafeAfter(b, m) ==
    LET after == move(b, m)
    IN  ~AttackedOnMailbox(after, KingSquareOnMailbox(after, b.player_to_move),
                           Other(b.player_to_move))

(* C1: in every position reached, get_legal_moves returns exactly the pseudo-legal *)
(* moves after which the mover's king is not attacked, and get_legal_captures      *)
(* exactly the captures among them                                                 *)
C1_LegalMovesKeepKingSafe ==
    LET safe == SelectSeq(generate_pseudo_legal_moves(board), LAMBDA m : KingSafeAfter(board, m))
    IN  /\ get_legal_moves(board) = safe
        /\ get_legal_captures(board) = SelectSeq(safe, is_capture)

(* a position, some moves into the game, where the filter keeps some moves and drops others *)
C1_Witness ==
    /\ ops > 0
    /\ Len(get_legal_moves(board)) > 0
    /\ Len(get_legal_moves(board)) < Len(generate_pseudo_legal_moves(board))
    /\ Len(get_legal_captures(board)) > 0

(* the fields that undo_move has to restore *)
RestoredFields(b) ==
    [bitboards |-> b.bitboards, occupancy |-> b.occupancy, mailbox |-> b.mailbox,
     castling_rights |-> b.castling_rights, epsq |-> History(b, b.game_ply).epsq,
     halfmove_clock |-> b.halfmove_clock, full_move_counter |-> b.full_move_counter,
     player_to_move |-> b.player_to_move, game_ply |-> b.game_ply,
     zobrist_key |-> b.zobrist_key]

(* C2: for every legal move m of a position reached, move(m) then undo_move(m)  *)
(* leaves bitboards, occupancies, every mailbox entry, castling rights,         *)
(* en-passant target, clocks, side to move, ply and hash as they were           *)
C2_MoveUndoRoundTrip ==
    \A m \in SeqToSet(get_legal_moves(board)) :
        RestoredFields(undo_move(move(board, m), m)) = RestoredFields(board)

(* C8: the mailbox names exactly the (kind, colour) whose bitboard holds the  *)
(* square, and the occupancies are the unions of the per-kind bitboards, the  *)
(* two colours disjoint                                                       *)
C8_MailboxAgreesWithBitboards ==
    /\ \A s \in Squares :
          LET p == board.mailbox[s]
              holders == {cp \in Colors \X PieceTypes : s \in board.bitboards[cp[1]][cp[2]]}
          IN  IF p.type = NO_PIECE_TYPE THEN holders = {} ELSE holders = {<<p.color, p.type>>}
    /\ \A c \in Colors :
          board.occupancy[c] = UNION {board.bitboards[c][pt] : pt \in PieceTypes}
    /\ board.occupancy[BOTH] =
          UNION {board.bitboards[c][pt] : c \in Colors, pt \in PieceTypes}
    /\ board.occupancy[WHITE] \cap board.occupancy[BLACK] = {}

(* a capture was made and undone, and something else was done after *)
C8_Witness ==
    /\ ops = MaxOps
    /\ board.game_ply = 0
    /\ History(board, 1).captured.type # NO_PIECE_TYPE

(* the hash recomputed from the mailbox *)
HashFromScratch(b) ==
    {ZOBRIST_PIECE(b.mailbox[s].color, b.mailbox[s].type, s) :
        s \in {t \in Squares : b.mailbox[t].type # NO_PIECE_TYPE}}
    \cup SideKeys(b.player_to_move) \cup CastlingKeys(b.castling_rights)
    \cup EpKeys(History(b, b.game_ply).epsq)

RECURSIVE Perft(_, _)
Perft(b, depth) ==
    IF depth = 0 THEN 1
    ELSE LET listed == ListLegal(b, FALSE)
             RECURSIVE Leaves(_)
             Leaves(i) == IF i = 0 THEN 0
                          ELSE Perft(move(listed.board, listed.legal[i]), depth - 1) + Leaves(i - 1)
         IN  Leaves(Len(listed.legal))

PerftExpected == <<20, 400, 8902, 197281, 4865609>>

LegalByRules(b) == {m \in SeqToSet(generate_pseudo_legal_moves(b)) : KingSafeAfter(b, m)}

PlacementChars == SeqToSet(whitePiecesString) \cup SeqToSet(blackPiecesString)
                      \cup {"1", "2", "3", "4", "5", "6", "7", "8", "/"}
IsSquareName(str) == Len(str) = 2 /\ str[1] \in SeqToSet(FileChars) /\ str[2] \in SeqToSet(RankChars)
IsNumber(str) == Len(str) > 0 /\ \A i \in 1 .. Len(str) : str[i] \in SeqToSet(DigitChars)

(* the string is no FEN: fewer than six fields, a placement character that is *)
(* neither a piece letter nor a digit 1-8, an en-passant field that is neither *)
(* the dash nor a square, a clock that is no number                            *)
NotAFen(f) ==
    LET t == Split(f, " ")
    IN  \/ Len(t) < 6
        \/ \E i \in 1 .. Len(t[1]) : t[1][i] \notin PlacementChars
        \/ ~(t[4] = <<"-">> \/ IsSquareName(t[4]))
        \/ ~IsNumber(t[5])
        \/ ~IsNumber(t[6])

(* a /move request with both fields and a FEN *)
MoveOnFen == request.path = "/move" /\ request.has_fen /\ request.has_uci_move /\ ~NotAFen(request.fen)

(* the Board the request's FEN stands for, and its legal moves that are written *)
(* as the request's move string                                                 *)
RequestBoard == setup_with_fen(NewBoard, request.fen).board
RequestedMoves == {m \in LegalByRules(RequestBoard) : to_uci(m) = request.uci_move}

(* C3: process_move answers INVALID, with no new_fen, exactly when the move string *)
(* is not the coordinate form of a legal move of the position; otherwise it        *)
(* answers VALID with the FEN of the position after that move                      *)
C3_ProcessMove ==
    MoveOnFen =>
        /\ resp.http = 200
        /\ IF RequestedMoves = {}
           THEN resp.status = "INVALID" /\ resp.new_fen = <<>>
           ELSE resp.status = "VALID"
                /\ \E m \in RequestedMoves : resp.new_fen = to_fen(move(RequestBoard, m))

(* a capturing promotion to a knight, accepted *)
C3_Witness ==
    /\ request.fen = PawnFen
    /\ request.uci_move = Chars("a7b8n")
    /\ resp.status = "VALID"
    /\ resp.new_fen = Chars("1N2k3/7p/5p2/3pP3/8/8/8/4K3 b - - 0 2")

(* the pieces of colour c on the mailbox *)
PiecesOnMailbox(b, c) == {s \in Squares : b.mailbox[s].type # NO_PIECE_TYPE /\ b.mailbox[s].color = c}

(* king against king, or king and one knight or bishop against a lone king *)
InsufficientByRules(b) ==
    \E c \in {WHITE, BLACK} :
        /\ Cardinality(PiecesOnMailbox(b, Other(c))) = 1
        /\ \/ Cardinality(PiecesOnMailbox(b, c)) = 1
           \/ /\ Cardinality(PiecesOnMailbox(b, c)) = 2
              /\ \E s \in PiecesOnMailbox(b, c) : b.mailbox[s].type \in {KNIGHT, BISHOP}

GameStateByRules(b) ==
    LET in_check == AttackedOnMailbox(b, KingSquareOnMailbox(b, b.player_to_move),
                                      Other(b.player_to_move))
    IN  IF LegalByRules(b) = {} /\ in_check THEN "CHECKMATE"
        ELSE IF LegalByRules(b) = {} THEN "STALEMATE"
        ELSE IF b.halfmove_clock >= 100 THEN "DRAW_50_MOVE"
        ELSE IF InsufficientByRules(b) THEN "DRAW_INSUFFICIENT"
        ELSE "ACTIVE"

(* C4: the game_state of a VALID answer is the first that applies of CHECKMATE,   *)
(* STALEMATE, DRAW_50_MOVE (clock >= 100), DRAW_INSUFFICIENT (K vs K, K+N vs K,   *)
(* K+B vs K), ACTIVE, in the position after the move                              *)
C4_GameStatePriority ==
    MoveOnFen /\ resp.status = "VALID" =>
        \A m \in RequestedMoves : resp.game_state = GameStateByRules(move(RequestBoard, m))

(* a mate given with the move that takes the clock to 100 *)
C4_Witness ==
    /\ request.fen = BackRankFen
    /\ request.uci_move = Chars("a1a8")
    /\ resp.game_state = "CHECKMATE"
    /\ get_halfmove_clock(setup_with_fen(NewBoard, resp.new_fen).board) = 100

(* C6: a request whose fen is no FEN is answered with HTTP 400 (by /move with the *)
(* error "failed to parse FEN"), and no move is generated for it                  *)
C6_MalformedFenRejected ==
    request.json /\ request.has_fen /\ (request.path = "/move" => request.has_uci_move)
        /\ NotAFen(request.fen)
    => /\ resp.http = 400
       /\ request.path = "/move" => resp.error = "failed to parse FEN"
       /\ ~resp.generated

(* C7: to_fen gives back, character for character, the FEN that setup_with_fen  *)
(* parsed, for the FENs of a game; after e2e4 in the initial position the FEN   *)
(* reads "b KQkq e3 0 1" after the placement                                    *)
C7_FenRoundTrip ==
    MoveOnFen =>
        /\ to_fen(RequestBoard) = request.fen
        /\ resp.status = "VALID" =>
               to_fen(setup_with_fen(NewBoard, resp.new_fen).board) = resp.new_fen
        /\ request.fen = InitialFen /\ request.uci_move = Chars("e2e4") =>
               resp.new_fen = Chars("rnbqkbnr/pppppppp/8/8/4P3/8/PPPP1PPP/RNBQKBNR b KQkq e3 0 1")

(* the FEN after 1. e4 c5, with its en-passant square, read back *)
C7_Witness ==
    /\ reqs = 2
    /\ request.fen = Chars("rnbqkbnr/pppppppp/8/8/4P3/8/PPPP1PPP/RNBQKBNR b KQkq e3 0 1")
    /\ resp.new_fen = Chars("rnbqkbnr/pp1ppppp/8/2p5/4P3/8/PPPP1PPP/RNBQKBNR w KQkq c6 0 2")

(* the searches answered so far *)
Answered == {i \in 1 .. Len(log) : log[i].http = 200}

(* C10: two searches of the same position to the same depth in one process return *)
(* the same best move, score and node count, whatever was searched in between     *)
C10_SearchRepeatable ==
    \A i, j \in Answered :
        log[i].fen = log[j].fen /\ log[i].depth = log[j].depth =>
            /\ log[i].best_move = log[j].best_move
            /\ log[i].score = log[j].score
            /\ log[i].nodes = log[j].nodes

(* a search request on a FEN, answered *)
SearchAnswered == request.path = "/search" /\ resp.http = 200 /\ ~NotAFen(request.fen)

(* C11: when the position of a search request has no legal move, the answer has *)
(* the empty string as best_move, score -100000 in check and 0 otherwise, and   *)
(* nodes 0                                                                      *)
C11_NoLegalMoveReply ==
    SearchAnswered /\ LegalByRules(RequestBoard) = {} =>
        /\ resp.best_move = <<>>
        /\ resp.score = IF GameStateByRules(RequestBoard) = "CHECKMATE" THEN -100000 ELSE 0
        /\ resp.nodes = 0

(* the moves of the position that give checkmate on the spot *)
MatingMoves(b) == {m \in LegalByRules(b) : GameStateByRules(move(b, m)) = "CHECKMATE"}

(* C12: from a position with a forced mate in k moves a search to depth >= 2k - 1 *)
(* returns a move that starts the mate with a score >= 100000 - 2k; for k = 1:    *)
(* when a move gives checkmate on the spot, a search to any depth >= 1 returns    *)
(* such a move, with a score >= 99998                                             *)
C12_MateFound ==
    SearchAnswered /\ MatingMoves(RequestBoard) # {} =>
        /\ resp.best_move \in {to_uci(m) : m \in MatingMoves(RequestBoard)}
        /\ resp.score >= 100000 - 2

(* C13: a search request whose FEN starts with a key of the opening book is *)
(* answered with one of the moves of the book and nodes 0                   *)
C13_BookHit ==
    SearchAnswered /\ fen_position_key(request.fen) \in DOMAIN OPENING_BOOK =>
        /\ resp.best_move \in book_lookup(request.fen)
        /\ resp.nodes = 0

(***************************************************************************)
(* Board::move against the rules of chess                                  *)
(***************************************************************************)
(* the castling moves the rules allow the side to move: the right is set, the    *)
(* squares between king and rook are empty, and the king's square, the square it *)
(* passes and the square it lands on are not attacked                            *)
CastlingByRules(b) ==
    LET white == b.player_to_move = WHITE
        cr == b.castling_rights
        sq(file) == (IF white THEN 0 ELSE 56) + file
        empty(files) == \A file \in files : b.mailbox[sq(file)].type = NO_PIECE_TYPE
        safe(files) == \A file \in files : ~AttackedOnMailbox(b, sq(file), Other(b.player_to_move))
        king_side == IF white THEN cr.white_king_side ELSE cr.black_king_side
        queen_side == IF white THEN cr.white_queen_side ELSE cr.black_queen_side
    IN  (IF king_side /\ empty({5, 6}) /\ safe({4, 5, 6}) THEN {Move(sq(4), sq(6), OO)} ELSE {})
        \cup (IF queen_side /\ empty({1, 2, 3}) /\ safe({4, 3, 2}) THEN {Move(sq(4), sq(2), OOO)} ELSE {})

(* C14: the castling moves generated are exactly those for which the right is set, *)
(* f and g (king side) or b, c and d (queen side) are empty, and none of the       *)
(* king's origin, pass-through and destination squares is attacked                 *)
C14_CastlingGenerated ==
    {m \in SeqToSet(generate_pseudo_legal_moves(board)) : MoveFlagsOf(m) \in {OO, OOO}}
        = CastlingByRules(board)

(* black has the queen-side right and b8, c8, d8 are empty, but a rook that just *)
(* moved attacks a square of the king's path: no castling move                   *)
C14_Witness ==
    /\ line # <<>>
    /\ board.player_to_move = BLACK
    /\ board.castling_rights.black_queen_side
    /\ \A s \in {b8, c8, d8} : board.mailbox[s].type = NO_PIECE_TYPE
    /\ \E s \in {c8, d8, e8} : AttackedOnMailbox(board, s, WHITE)
    /\ \A m \in SeqToSet(generate_pseudo_legal_moves(board)) : MoveFlagsOf(m) # OOO

(* the step is a call of move: the line grew by a move that is not the null move *)
Moved == Len(line') = Len(line) + 1 /\ Last(line') # NullMove

(* the move takes a piece: it lands on a piece, or a pawn changes file *)
TakesByRules(b, m) ==
    \/ b.mailbox[MoveTo(m)].type # NO_PIECE_TYPE
    \/ b.mailbox[MoveFrom(m)].type = PAWN /\ MoveFrom(m) % 8 # MoveTo(m) % 8

(* C15: move sets the halfmove clock to 0 when a pawn moves or a piece is taken,  *)
(* and adds 1 to it otherwise; it adds 1 to the fullmove counter when black moved *)
(* and leaves it alone when white moved                                           *)
C15_Clocks ==
    [][Moved =>
        /\ board'.halfmove_clock =
               IF board.mailbox[MoveFrom(Last(line'))].type = PAWN \/ TakesByRules(board, Last(line'))
               THEN 0 ELSE board.halfmove_clock + 1
        /\ board'.full_move_counter =
               IF board.player_to_move = BLACK THEN board.full_move_counter + 1
               ELSE board.full_move_counter]_vars

(* two piece moves without a capture: the clock is at 2 and the counter went up *)
C15_Witness ==
    /\ Len(line) = 2
    /\ board.halfmove_clock = 2
    /\ board.full_move_counter = 2
    /\ board.player_to_move = WHITE

(* the last call was move, and it pushed a pawn two squares *)
LastMoveSet == line # <<>> /\ Last(line) # NullMove
LastWasDoublePush ==
    /\ board.mailbox[MoveTo(Last(line))].type = PAWN
    /\ MoveTo(Last(line)) - MoveFrom(Last(line)) \in {16, -16}

(* C16: after a move the en-passant target is set exactly when the move was a    *)
(* double pawn push; it then lies on rank 3 (white moved) or 6 (black moved) and *)
(* the square beyond it holds the pawn that moved                                *)
C16_EnPassantTarget ==
    LastMoveSet =>
        LET epsq == History(board, board.game_ply).epsq
            mover == Other(board.player_to_move)
        IN  IF LastWasDoublePush
            THEN /\ epsq # NO_SQUARE
                 /\ epsq \div 8 = (IF mover = WHITE THEN 2 ELSE 5)
                 /\ board.mailbox[epsq + (IF mover = WHITE THEN 8 ELSE -8)] = Piece(PAWN, mover)
                 /\ epsq + (IF mover = WHITE THEN 8 ELSE -8) = MoveTo(Last(line))
            ELSE epsq = NO_SQUARE

(* a double push answered by a double push: the target moved to rank 6 *)
C16_Witness ==
    /\ Len(line) = 2
    /\ LastWasDoublePush
    /\ History(board, board.game_ply).epsq \div 8 = 5
    /\ History(board, board.game_ply - 1).epsq \div 8 = 2

(* the four castling rights as a set of the ones that are set *)
RightsSet(b) ==
    {name \in {"K", "Q", "k", "q"} :
        CASE name = "K" -> b.castling_rights.white_king_side
          [] name = "Q" -> b.castling_rights.white_queen_side
          [] name = "k" -> b.castling_rights.black_king_side
          [] name = "q" -> b.castling_rights.black_queen_side}

(* the rights the rules take away with the move m on b *)
RightsLostByRules(b, m) ==
    LET piece == b.mailbox[MoveFrom(m)]
        taken == b.mailbox[MoveTo(m)]
    IN  (IF piece = Piece(KING, WHITE) THEN {"K", "Q"} ELSE {})
        \cup (IF piece = Piece(KING, BLACK) THEN {"k", "q"} ELSE {})
        \cup (IF piece = Piece(ROOK, WHITE) /\ MoveFrom(m) = a1 THEN {"Q"} ELSE {})
        \cup (IF piece = Piece(ROOK, WHITE) /\ MoveFrom(m) = h1 THEN {"K"} ELSE {})
        \cup (IF piece = Piece(ROOK, BLACK) /\ MoveFrom(m) = a8 THEN {"q"} ELSE {})
        \cup (IF piece = Piece(ROOK, BLACK) /\ MoveFrom(m) = h8 THEN {"k"} ELSE {})
        \cup (IF taken = Piece(ROOK, WHITE) /\ MoveTo(m) = a1 THEN {"Q"} ELSE {})
        \cup (IF taken = Piece(ROOK, WHITE) /\ MoveTo(m) = h1 THEN {"K"} ELSE {})
        \cup (IF taken = Piece(ROOK, BLACK) /\ MoveTo(m) = a8 THEN {"q"} ELSE {})
        \cup (IF taken = Piece(ROOK, BLACK) /\ MoveTo(m) = h8 THEN {"k"} ELSE {})

(* C17: along calls of move no castling right is ever set again: a move leaves   *)
(* the rights that were set, less both rights of a king that moved, the right of *)
(* a rook that left its corner and the right of a rook taken on its corner       *)
C17_CastlingRightsMonotone ==
    [][Moved => RightsSet(board') = RightsSet(board) \ RightsLostByRules(board, Last(line'))]_vars

(* a rook took a rook on its corner: both lost their right, the others are kept *)
C17_Witness ==
    /\ line # <<>>
    /\ Last(line) = Move(a1, a8, CAPTURE)
    /\ RightsSet(board) = {"K", "k"}

(***************************************************************************)
(* The replacement policy of the transposition table                       *)
(***************************************************************************)
(* the slots of the keys stored *)
TtSlots == {tt_index(key) : key \in TtKeys}
EntryAt(table, slot) == IF slot \in DOMAIN table THEN table[slot] ELSE ZeroEntry

(* C20: tt_store overwrites the entry of the slot exactly when the slot holds    *)
(* another key or the new depth is >= the depth stored; a store that is rejected *)
(* leaves the slot as it was, the other slots are never touched, and while a key *)
(* stays in its slot its depth never decreases                                   *)
C20_TtReplacement ==
    [][LET call == log'[1]
        slot == tt_index(call.key)
        was == EntryAt(tt, slot)
        is == EntryAt(tt', slot)
    IN  /\ IF was.key # call.key \/ call.depth >= was.depth
           THEN /\ is.key = call.key
                /\ is.depth = call.depth
                /\ is.best_move_raw = to_from(call.best)
                /\ is.flag = call.flag
                /\ call.score \in -90000 .. 90000 => is.score = call.score
           ELSE is = was
        /\ \A other \in TtSlots \ {slot} : EntryAt(tt', other) = EntryAt(tt, other)
        /\ \A any \in TtSlots :
               EntryAt(tt', any).key = EntryAt(tt, any).key =>
                   EntryAt(tt', any).depth >= EntryAt(tt, any).depth]_vars

(* a store to a slot that holds the same key at a greater depth: rejected *)
C20_Witness ==
    /\ log # <<>>
    /\ EntryAt(tt, tt_index(log[1].key)).key = log[1].key
    /\ EntryAt(tt, tt_index(log[1].key)).depth > log[1].depth
    /\ EntryAt(tt, tt_index(log[1].key)).flag # log[1].flag

(***************************************************************************)
(* The referee's turn order and move history                               *)
(***************************************************************************)
(* the step in which the transaction of h commits its move *)
Commits(h) ==
    /\ handlers[h].pc = "updated"
    /\ handlers'[h].pc = "done"
    /\ game_moves' # game_moves

MoverColor(game, user) ==
    IF user = game.white_id THEN "w" ELSE IF user = game.black_id THEN "b" ELSE ""

(* C18: under any interleaving of POST /move requests and bot goroutines, a move  *)
(* is persisted only on the stored FEN it was validated against, and by the       *)
(* player whose colour is to move in that stored FEN                              *)
C18_TurnOrder ==
    [][\A h \in DOMAIN handlers :
          Commits(h) => /\ handlers[h].fen = games.current_fen
                        /\ MoverColor(games, handlers[h].user) = activeColor(games.current_fen)]_vars

RowAt(i) == CHOOSE r \in game_moves : r.ply = i
FenBefore(i) == IF i = 1 THEN InitialFen ELSE RowAt(i - 1).fen_after

(* the engine's result of applying uci to fen is fen_after *)
EngineApplies(fen, uci, fen_after) ==
    \E reply \in post_move(MoveRequest(fen, uci)) :
        reply.status = "VALID" /\ reply.new_fen = fen_after

(* C19: in every database state the recorded plies are 1..n, the fen_after of each *)
(* ply is the engine's result of its uci on the fen_after of the ply before (the   *)
(* initial FEN for ply 1), and games.current_fen is the fen_after of ply n         *)
C19_HistoryConsistent ==
    handlers # <<>> =>
        LET n == Cardinality(game_moves)
        IN  /\ {r.ply : r \in game_moves} = 1 .. n
            /\ \A i \in 1 .. n : EngineApplies(FenBefore(i), RowAt(i).uci, RowAt(i).fen_after)
            /\ games.current_fen = IF n = 0 THEN InitialFen ELSE RowAt(n).fen_after

(***************************************************************************)
(* The transposition table probe                                           *)
(***************************************************************************)
Probed == Len(log) = 2
(* the score an entry stands for at ply *)
AdjustedScore(e, ply) ==
    IF e.score > 90000 THEN e.score - ply ELSE IF e.score < -90000 THEN e.score + ply ELSE e.score

(* C21: tt_probe returns true only when the key of the slot is the probed key, the *)
(* depth stored is >= the depth asked for and the flag is exact, or lower bound    *)
(* with adjusted score >= beta, or upper bound with adjusted score <= alpha, and   *)
(* then gives the adjusted score; whenever the keys match the hash move is the     *)
(* stored best move, whatever the depth; when they differ it is a miss and the     *)
(* hash move stays null                                                            *)
C21_TtProbe ==
    Probed =>
        LET call == log[2].call
            result == log[2].result
            e == EntryAt(tt, tt_index(call.key))
            s == AdjustedScore(e, call.ply)
        IN  /\ result.hit <=>
                  /\ e.key = call.key
                  /\ e.depth >= call.depth
                  /\ \/ e.flag = TT_EXACT
                     \/ e.flag = TT_BETA /\ s >= call.window.beta
                     \/ e.flag = TT_ALPHA /\ s <= call.window.alpha
            /\ result.hit => result.score = s
            /\ e.key = call.key => result.hash_move = e.best_move_raw
            /\ e.key # call.key => ~result.hit /\ result.hash_move = NullMove

(* a probe of the key stored, for more depth than stored: no score, but the hash move *)
C21_Witness ==
    /\ Probed
    /\ EntryAt(tt, tt_index(log[2].call.key)).key = log[2].call.key
    /\ EntryAt(tt, tt_index(log[2].call.key)).depth < log[2].call.depth
    /\ ~log[2].result.hit
    /\ log[2].result.hash_move # NullMove

(* C22: a score of negamax that tt_store writes as exact into a slot that takes *)
(* it is the score tt_probe returns for the same key, depth and ply, mate       *)
(* scores included; a mate score stored at ply p and probed at ply q comes back *)
(* as the same mate distance from q                                             *)
C22_ScoreRoundTrip ==
    /\ Probed
    /\ log[1].call.flag = TT_EXACT
    /\ log[1].accepted
    /\ log[2].call.key = log[1].call.key
    /\ log[2].call.depth = log[1].call.depth
    => /\ log[2].result.hit
       /\ log[2].call.ply = log[1].call.ply => log[2].result.score = log[1].call.score
       /\ log[1].call.score > 90000 =>
              log[2].result.score = log[1].call.score + log[1].call.ply - log[2].call.ply
       /\ log[1].call.score < -90000 =>
              log[2].result.score = log[1].call.score - log[1].call.ply + log[2].call.ply

(***************************************************************************)
(* The repetition test on the search path                                  *)
(***************************************************************************)
(* the hashes of the nodes on the path at the plies ply - 2, ply - 4, ..., 0 *)
AncestorHashes(ply) == {log[i + 1].hash : i \in {j \in 0 .. ply - 2 : (ply - j) % 2 = 0}}

(* C23: at the node at ply p the repetition test returns 0 exactly when the hash *)
(* of the position is the hash of a node of the path at ply p-2, p-4, ..., 0;    *)
(* every entry of path_hashes below p is the hash its ancestor wrote (no stale   *)
(* value of a sibling line, no slot never written), and path_hashes[p] is the    *)
(* hash of the node before a child is searched, through a null move as well      *)
C23_RepetitionOnPath ==
    log # <<>> =>
        LET ply == Len(line)
        IN  /\ Len(log) = ply + 1
            /\ Last(log).repeated <=> Last(log).hash \in AncestorHashes(ply)
            /\ Len(context.path_hashes) >= ply
            /\ \A i \in 0 .. ply - 1 : context.path_hashes[i + 1] = log[i + 1].hash
            /\ ~Last(log).repeated =>
                  /\ Len(context.path_hashes) >= ply + 1
                  /\ context.path_hashes[ply + 1] = Last(log).hash

(* a repetition found behind a sibling line that left another hash at this ply *)
C23_Witness ==
    /\ Len(line) = 4
    /\ Last(log).repeated
    /\ Len(context.path_hashes) = 5
    /\ context.path_hashes[5] # Last(log).hash

(***************************************************************************)
(* Killers and history                                                     *)
(***************************************************************************)
(* the quiet moves that cut off at ply, oldest first *)
QuietCutoffsAt(ply) == SelectSeq(log, LAMBDA c : c.ply = ply /\ ~is_capture(c.move))
(* the last of them that is not the move last *)
PreviousDistinct(cuts) ==
    LET others == SelectSeq(cuts, LAMBDA c : c.move # Last(cuts).move)
    IN  IF others = <<>> THEN NullMove ELSE Last(others).move

(* C24: after any sequence of beta cut-offs, at each ply < 64 killer slot 0 holds the *)
(* most recent quiet move that cut off at the ply and slot 1 the previous distinct    *)
(* one, the slots never hold the same non-null move, no capture is in a slot, and     *)
(* every history entry is within 0..1000000                                           *)
C24_KillersAndHistory ==
    /\ \A ply \in CutPlies :
          LET cuts == QuietCutoffsAt(ply)
              slots == Killers(context, ply)
          IN  IF ply < 64 /\ cuts # <<>>
              THEN /\ slots[1] = Last(cuts).move
                   /\ slots[2] = PreviousDistinct(cuts)
                   /\ slots[1] # slots[2]
                   /\ ~is_capture(slots[1]) /\ ~is_capture(slots[2])
              ELSE slots = <<NullMove, NullMove>>
    /\ \A k \in DOMAIN context.history : context.history[k] \in 0 .. 1000000

(* a quiet move, a capture and another quiet move cut off at ply 63, and a history *)
(* entry stands at the cap                                                        *)
C24_Witness ==
    /\ Len(log) = 3
    /\ \A i \in 1 .. 3 : log[i].ply = 63
    /\ ~is_capture(log[1].move) /\ is_capture(log[2].move) /\ ~is_capture(log[3].move)
    /\ log[3].move # log[1].move
    /\ Killers(context, 63) = <<log[3].move, log[1].move>>
    /\ \E k \in DOMAIN context.history : context.history[k] = 1000000

(***************************************************************************)
(* The Board after the search                                              *)
(***************************************************************************)
(* C25: search, negamax and quiescence_search return with the Board as it was at *)
(* the call: the ply index, the side to move, the placement, the castling        *)
(* rights, the en-passant target, the clocks and the hash are those of the entry *)
C25_BoardRestored ==
    returned # <<>> => returned.exit = returned.entry

(* a second call that searched nodes on the table the first call left, at a node *)
(* below the root                                                                *)
C25_Witness ==
    /\ returned # <<>>
    /\ ops = MaxCalls
    /\ Len(line) = MaxReturnPly
    /\ returned.depth = MaxReturnDepth
    /\ returned.nodes > 1

(***************************************************************************)
(* Castling rights and the pieces that castle                              *)
(***************************************************************************)
(* the piece of the colour stands on the square, in the bitboards and in the mailbox *)
Stands(b, color, type, s) ==
    /\ s \in b.bitboards[color][type]
    /\ get_piece_type_on_square(b, s) = type
    /\ get_piece_color_on_square(b, s) = color

(* C26: whenever a castling right is set the king of the colour stands on e1/e8 and *)
(* the rook of the colour on the corner of the right, so that a generated castling  *)
(* move takes the king and the rook from their squares and puts them on empty       *)
(* squares: the assertions of remove_piece and put_piece hold                       *)
C26_CastlingPieces ==
    /\ board.castling_rights.white_king_side =>
          Stands(board, WHITE, KING, e1) /\ Stands(board, WHITE, ROOK, h1)
    /\ board.castling_rights.white_queen_side =>
          Stands(board, WHITE, KING, e1) /\ Stands(board, WHITE, ROOK, a1)
    /\ board.castling_rights.black_king_side =>
          Stands(board, BLACK, KING, e8) /\ Stands(board, BLACK, ROOK, h8)
    /\ board.castling_rights.black_queen_side =>
          Stands(board, BLACK, KING, e8) /\ Stands(board, BLACK, ROOK, a8)
    /\ board.assert_ok
    /\ \A m \in SeqToSet(get_legal_moves(board)) :
          MoveFlagsOf(m) \in {OO, OOO} => move(board, m).assert_ok

(* White has castled king side while Black holds both rights *)
C26_Witness ==
    /\ line # <<>>
    /\ Last(line) = Move(e1, e1 + 2, OO)
    /\ Stands(board, WHITE, KING, e1 + 2) /\ Stands(board, WHITE, ROOK, e1 + 1)
    /\ board.castling_rights.black_king_side /\ board.castling_rights.black_queen_side

(***************************************************************************)
(* The window of the PV test                                               *)
(***************************************************************************)
(* C27: in every call of negamax made by search() the difference beta - alpha is *)
(* an int, the call for the first root move with alpha = INT_MIN + 1 and         *)
(* beta = INT_MAX included                                                       *)
C27_WindowRepresentable ==
    returned # <<>> /\ returned.call = "search" => ~returned.pv_unrepresentable

(***************************************************************************)
(* The opening book and the FEN of the engine                              *)
(***************************************************************************)
(* the position of fen (placement, side to move, castling rights) is in the book *)
BookPosition(fen) ==
    \E key \in DOMAIN OPENING_BOOK :
        /\ Len(Split(fen, " ")) >= 3
        /\ SubSeq(Split(key, " "), 1, 3) = SubSeq(Split(fen, " "), 1, 3)

(* C28: when validate-and-apply reaches a position of the opening book, the first *)
(* four fields of the new_fen it emits are the key of the book, after a double    *)
(* pawn push as well                                                              *)
C28_BookKeyEmitted ==
    /\ request.path = "/move"
    /\ resp.status = "VALID"
    /\ BookPosition(resp.new_fen)
    => fen_position_key(resp.new_fen) \in DOMAIN OPENING_BOOK

(***************************************************************************)
(* Terminal positions in the search and in the classifier                  *)
(***************************************************************************)
(* C29: a position process_move calls CHECKMATE is scored -100000 + ply by negamax *)
(* and one it calls STALEMATE is scored 0, whatever the halfmove clock and the     *)
(* material; negamax takes the draw by clock or material only in positions         *)
(* process_move calls DRAW_50_MOVE or DRAW_INSUFFICIENT                            *)
C29_TerminalScores ==
    returned # <<>> =>
        /\ resp.game_state = "CHECKMATE" => returned.score = -100000 + returned.ply
        /\ resp.game_state = "STALEMATE" => returned.score = 0
        /\ get_halfmove_clock(board) >= 100 \/ is_insufficient_material(board)
           => resp.game_state \in {"DRAW_50_MOVE", "DRAW_INSUFFICIENT"}

(***************************************************************************)
(* A finished game                                                         *)
(***************************************************************************)
(* C30: once the status of a game is 'finished', no move request and no bot reply, *)
(* later or running at the time, changes its current_fen, sets its status back to  *)
(* 'active' or appends a move record                                               *)
C30_FinishedIsFinal ==
    [][games.status = "finished" => games' = games /\ game_moves' = game_moves]_vars

(* the rows of the game follow from one another by the engine, from the initial position *)
FinishRowsFollow ==
    \A r \in FoolsMoves :
        LET before == IF r.ply = 1 THEN InitialFen
                      ELSE (CHOOSE q \in FoolsMoves : q.ply = r.ply - 1).fen_after
        IN  /\ process_move(before, r.uci).status = "VALID"
            /\ process_move(before, r.uci).new_fen = r.fen_after

====
